---- MODULE Spec2Model ----
(***************************************************************************)
(* Model of the hellajay web server: the admin router (rate limiter,       *)
(* basicAuth, bio / photo / track / translation routes) and the parts of   *)
(* server.js it shares state with (tracks cache, getAudioFiles).           *)
(*                                                                         *)
(* JavaScript strings are sequences of one-character strings; a value that *)
(* may be undefined is a set with no element or with one.                  *)
(***************************************************************************)
EXTENDS Integers, Sequences, FiniteSets, TLC

VARIABLES env, hits, contactHits, pending, bioFile, localeFiles, tracksFile, workDir, imagesDir,
          tracksData, translations, bio, last, prev

vars == <<env, hits, contactHits, pending, bioFile, localeFiles, tracksFile, workDir, imagesDir,
          tracksData, translations, bio, last, prev>>

(***************************************************************************)
(* Strings                                                                 *)
(***************************************************************************)
Undefined == {}

Some(v) == {v}

Val(o) == CHOOSE v \in o : TRUE

Max(a, b) == IF a >= b THEN a ELSE b

StartsWith(s, p) ==
    /\ Len(s) >= Len(p)
    /\ \A i \in 1..Len(p) : s[i] = p[i]

Includes(s, p) ==
    \E i \in 0..(Len(s) - Len(p)) : \A j \in 1..Len(p) : s[i + j] = p[j]

IndexOf(s, c) ==
    IF \E i \in 1..Len(s) : s[i] = c
    THEN CHOOSE i \in 1..Len(s) : s[i] = c /\ \A j \in 1..(i - 1) : s[j] # c
    ELSE 0

LastIndexOf(s, c) ==
    IF \E i \in 1..Len(s) : s[i] = c
    THEN CHOOSE i \in 1..Len(s) : s[i] = c /\ \A j \in (i + 1)..Len(s) : s[j] # c
    ELSE 0

\* String.prototype.split with a one-character separator: every segment.
RECURSIVE Split(_, _)
Split(s, c) ==
    LET i == IndexOf(s, c)
    IN  IF i = 0 THEN <<s>>
        ELSE <<SubSeq(s, 1, i - 1)>> \o Split(SubSeq(s, i + 1, Len(s)), c)

\* The n-th element (from 0) of a destructured or indexed array, or undefined.
Nth(arr, n) == IF n + 1 <= Len(arr) THEN Some(arr[n + 1]) ELSE Undefined

\* x || '' for a string or undefined x.
OrEmpty(o) == IF o = Undefined \/ o = Some(<<>>) THEN <<>> ELSE Val(o)

(***************************************************************************)
(* Bytes and base64                                                        *)
(***************************************************************************)
Chars == {"a", "d", "i", "m", "n", "p", "u", "w", ":"}

CharCode ==
    [c \in Chars |->
        CASE c = "a" -> 97  [] c = "d" -> 100 [] c = "i" -> 105
          [] c = "m" -> 109 [] c = "n" -> 110 [] c = "p" -> 112
          [] c = "u" -> 117 [] c = "w" -> 119 [] c = ":" -> 58]

CodeChar(b) == CHOOSE c \in Chars : CharCode[c] = b

\* Buffer.from(str): the bytes of an ASCII string.
Bytes(s) == [i \in 1..Len(s) |-> CharCode[s[i]]]

\* buf.toString('utf8') for ASCII bytes.
Utf8(bs) == [i \in 1..Len(bs) |-> CodeChar(bs[i])]

B64 ==
    <<"A", "B", "C", "D", "E", "F", "G", "H", "I", "J", "K", "L", "M",
      "N", "O", "P", "Q", "R", "S", "T", "U", "V", "W", "X", "Y", "Z",
      "a", "b", "c", "d", "e", "f", "g", "h", "i", "j", "k", "l", "m",
      "n", "o", "p", "q", "r", "s", "t", "u", "v", "w", "x", "y", "z",
      "0", "1", "2", "3", "4", "5", "6", "7", "8", "9", "+", "/">>

Sextet(c) == (CHOOSE i \in 1..Len(B64) : B64[i] = c) - 1

\* What a client does to build the header: base64 of the credential bytes.
RECURSIVE Base64Encode(_)
Base64Encode(bs) ==
    IF Len(bs) = 0 THEN <<>>
    ELSE IF Len(bs) = 1 THEN
        LET n == bs[1] * 16
        IN  <<B64[(n \div 64) + 1], B64[(n % 64) + 1], "=", "=">>
    ELSE IF Len(bs) = 2 THEN
        LET n == (bs[1] * 256 + bs[2]) * 4
        IN  <<B64[(n \div 4096) + 1], B64[((n \div 64) % 64) + 1],
              B64[(n % 64) + 1], "=">>
    ELSE
        LET n == bs[1] * 65536 + bs[2] * 256 + bs[3]
        IN  <<B64[(n \div 262144) + 1], B64[((n \div 4096) % 64) + 1],
              B64[((n \div 64) % 64) + 1], B64[(n % 64) + 1]>>
            \o Base64Encode(SubSeq(bs, 4, Len(bs)))

\* Buffer.from(str, 'base64'): groups of four characters give three bytes; a
\* last group of two or three characters gives one or two; decoding stops at '='.
RECURSIVE Base64Groups(_)
Base64Groups(cs) ==
    IF Len(cs) <= 1 THEN <<>>
    ELSE IF Len(cs) = 2 THEN
        <<(Sextet(cs[1]) * 64 + Sextet(cs[2])) \div 16>>
    ELSE IF Len(cs) = 3 THEN
        LET n == (Sextet(cs[1]) * 4096 + Sextet(cs[2]) * 64 + Sextet(cs[3])) \div 4
        IN  <<n \div 256, n % 256>>
    ELSE
        LET n == Sextet(cs[1]) * 262144 + Sextet(cs[2]) * 4096
                 + Sextet(cs[3]) * 64 + Sextet(cs[4])
        IN  <<n \div 65536, (n \div 256) % 256, n % 256>>
            \o Base64Groups(SubSeq(cs, 5, Len(cs)))

Base64Decode(cs) ==
    LET stop == IndexOf(cs, "=")
    IN  Base64Groups(IF stop = 0 THEN cs ELSE SubSeq(cs, 1, stop - 1))

(***************************************************************************)
(* basicAuth                                                               *)
(***************************************************************************)
BasicPrefix == <<"B", "a", "s", "i", "c", " ">>

DefaultAdminUser == <<"a", "d", "m", "i", "n">>

\* process.env.ADMIN_USER || 'admin'
AdminUser(e) == IF OrEmpty(e.ADMIN_USER) = <<>> THEN DefaultAdminUser ELSE Val(e.ADMIN_USER)

\* !process.env.ADMIN_PASS
NoAdminPass(e) == OrEmpty(e.ADMIN_PASS) = <<>>

\* Buffer.alloc(n, 0) followed by Buffer.from(s).copy(buffer).
Padded(s, n) == [i \in 1..n |-> IF i <= Len(s) THEN CharCode[s[i]] ELSE 0]

\* crypto.timingSafeEqual on buffers of one length: every byte is compared and
\* the differences are accumulated, whatever the position of the first one.
RECURSIVE DiffCount(_, _, _)
DiffCount(a, b, i) ==
    IF i > Len(a) THEN 0
    ELSE (IF a[i] = b[i] THEN 0 ELSE 1) + DiffCount(a, b, i + 1)

TimingSafeEqual(a, b) == DiffCount(a, b, 1) = 0

\* The credentials of a header that starts with 'Basic ': split(' ')[1],
\* base64-decoded, split(':'), first two elements.
HeaderCredentials(h) ==
    LET base64Credentials == Val(Nth(Split(h, " "), 1))
        credentials == Utf8(Base64Decode(base64Credentials))
        parts == Split(credentials, ":")
    IN  [user |-> Nth(parts, 0), pass |-> Nth(parts, 1)]

\* The number of bytes a comparison that stops at the first difference reads.
FirstDiff(a, b) ==
    IF \E i \in 1..Len(a) : a[i] # b[i]
    THEN CHOOSE i \in 1..Len(a) : a[i] # b[i] /\ \A j \in 1..(i - 1) : a[j] = b[j]
    ELSE Len(a)

\* A comparison that returns at the first differing byte.
CompareEarlyExit(userInput, passInput, adminUser, adminPass) ==
    LET maxUserLen == Max(Len(userInput), Len(adminUser))
        maxPassLen == Max(Len(passInput), Len(adminPass))
        userBytes == Padded(userInput, maxUserLen) = Padded(adminUser, maxUserLen)
        passBytes == Padded(passInput, maxPassLen) = Padded(adminPass, maxPassLen)
    IN  [userMatch |-> userBytes /\ Len(userInput) = Len(adminUser),
         passMatch |-> passBytes /\ Len(passInput) = Len(adminPass),
         steps |->
            <<<<"alloc", maxUserLen>>, <<"alloc", maxUserLen>>,
              <<"alloc", maxPassLen>>, <<"alloc", maxPassLen>>,
              <<"copy", Len(userInput)>>, <<"copy", Len(adminUser)>>,
              <<"copy", Len(passInput)>>, <<"copy", Len(adminPass)>>,
              <<"timingSafeEqualUser",
                FirstDiff(Padded(userInput, maxUserLen), Padded(adminUser, maxUserLen))>>>>
            \o (IF userBytes THEN <<<<"lengthEqUser", 1>>>> ELSE <<>>)
            \o <<<<"timingSafeEqualPass",
                   FirstDiff(Padded(passInput, maxPassLen), Padded(adminPass, maxPassLen))>>>>
            \o (IF passBytes THEN <<<<"lengthEqPass", 1>>>> ELSE <<>>)]

\* The comparison of lines 50-69: the values computed and, in order, the
\* primitive steps taken. The length test is the right operand of &&: it is
\* evaluated only when timingSafeEqual returned true.
Compare(userInput, passInput, adminUser, adminPass) ==
    LET maxUserLen == Max(Len(userInput), Len(adminUser))
        maxPassLen == Max(Len(passInput), Len(adminPass))
        userBytes == TimingSafeEqual(Padded(userInput, maxUserLen),
                                     Padded(adminUser, maxUserLen))
        passBytes == TimingSafeEqual(Padded(passInput, maxPassLen),
                                     Padded(adminPass, maxPassLen))
    IN  [userMatch |-> userBytes /\ Len(userInput) = Len(adminUser),
         passMatch |-> passBytes /\ Len(passInput) = Len(adminPass),
         steps |->
            <<<<"alloc", maxUserLen>>, <<"alloc", maxUserLen>>,
              <<"alloc", maxPassLen>>, <<"alloc", maxPassLen>>,
              <<"copy", Len(userInput)>>, <<"copy", Len(adminUser)>>,
              <<"copy", Len(passInput)>>, <<"copy", Len(adminPass)>>,
              <<"timingSafeEqualUser", maxUserLen>>>>
            \o (IF userBytes THEN <<<<"lengthEqUser", 1>>>> ELSE <<>>)
            \o <<<<"timingSafeEqualPass", maxPassLen>>>>
            \o (IF passBytes THEN <<<<"lengthEqPass", 1>>>> ELSE <<>>)]

NoSteps == <<>>

\* Lines 36-37: ADMIN_PASS is not set.
ConfigurationError ==
    [status |-> 500, body |-> "Server configuration error",
     wwwAuthenticate |-> Undefined, next |-> FALSE, steps |-> NoSteps]

\* Lines 42-43: no Authorization header, or not a Basic one.
AuthenticationRequired ==
    [status |-> 401, body |-> "Authentication required",
     wwwAuthenticate |-> Some("Basic realm=\"Admin\""), next |-> FALSE,
     steps |-> NoSteps]

\* !authHeader || !authHeader.startsWith('Basic ')
NoBasicHeader(authHeader) ==
    OrEmpty(authHeader) = <<>> \/ ~StartsWith(Val(authHeader), BasicPrefix)

\* Lines 46-76: the credentials of the header against the configured pair.
CheckCredentials(e, authHeader) ==
    LET cred == HeaderCredentials(Val(authHeader))
        cmp == Compare(OrEmpty(cred.user), OrEmpty(cred.pass),
                       AdminUser(e), Val(e.ADMIN_PASS))
    IN  IF cmp.userMatch /\ cmp.passMatch THEN
            [status |-> 0, body |-> "", wwwAuthenticate |-> Undefined,
             next |-> TRUE, steps |-> cmp.steps]
        ELSE
            [status |-> 401, body |-> "Invalid credentials",
             wwwAuthenticate |-> Some("Basic realm=\"Admin\""),
             next |-> FALSE, steps |-> cmp.steps]

\* basicAuth with the header test made before the configuration test.
BasicAuthHeaderFirst(e, authHeader) ==
    IF NoBasicHeader(authHeader) THEN AuthenticationRequired
    ELSE IF NoAdminPass(e) THEN ConfigurationError
    ELSE CheckCredentials(e, authHeader)

\* basicAuth(req, res, next): the response it sends, or next() called.
BasicAuth(e, authHeader) ==
    IF NoAdminPass(e) THEN ConfigurationError
    ELSE IF NoBasicHeader(authHeader) THEN AuthenticationRequired
    ELSE CheckCredentials(e, authHeader)

\* The header a client sends for a credentials string.
BasicHeader(credentials) == Some(BasicPrefix \o Base64Encode(Bytes(credentials)))

(***************************************************************************)
(* Paths, filenames and the JSON store                                     *)
(***************************************************************************)
WORK_DIR == <<"/", "w">>

\* path.join(WORK_DIR, filename) for a filename without separator or '..'.
PathJoin(dir, name) == IF name = <<".">> THEN dir ELSE dir \o <<"/">> \o name

Letters ==
    {"a", "b", "c", "d", "e", "f", "g", "h", "i", "j", "k", "l", "m",
     "n", "o", "p", "q", "r", "s", "t", "u", "v", "w", "x", "y", "z",
     "A", "B", "C", "D", "E", "F", "G", "H", "I", "J", "K", "L", "M",
     "N", "O", "P", "Q", "R", "S", "T", "U", "V", "W", "X", "Y", "Z"}

Digits == {"0", "1", "2", "3", "4", "5", "6", "7", "8", "9"}

\* A sanitizer that removes the characters instead of replacing them.
SafeNameRemoving(originalname) ==
    SelectSeq(originalname, LAMBDA ch : ch \in Letters \cup Digits \cup {".", "_", "-"})

\* file.originalname.replace(/[^a-zA-Z0-9._-]/g, '_')
SafeName(originalname) ==
    [i \in 1..Len(originalname) |->
        IF originalname[i] \in Letters \cup Digits \cup {".", "_", "-"}
        THEN originalname[i] ELSE "_"]

\* path.extname of a name without separators.
ExtName(name) ==
    LET i == LastIndexOf(name, ".")
    IN  IF i <= 1 \/ name = <<".", ".">> THEN <<>> ELSE SubSeq(name, i, Len(name))

\* path.basename(name, ext) of a name without separators.
BaseName(name, ext) ==
    IF Len(ext) > 0 /\ Len(name) > Len(ext)
       /\ SubSeq(name, Len(name) - Len(ext) + 1, Len(name)) = ext
    THEN SubSeq(name, 1, Len(name) - Len(ext))
    ELSE name

RECURSIVE TrimStart(_)
TrimStart(s) == IF Len(s) > 0 /\ s[1] = " " THEN TrimStart(Tail(s)) ELSE s

RECURSIVE TrimEnd(_)
TrimEnd(s) ==
    IF Len(s) > 0 /\ s[Len(s)] = " " THEN TrimEnd(SubSeq(s, 1, Len(s) - 1)) ELSE s

\* String.prototype.trim
Trim(s) == TrimEnd(TrimStart(s))

\* encodeURIComponent: unreserved characters stay, a space becomes %20.
EncodeURIComponent(s) ==
    LET Enc(c) == IF c \in Letters \cup Digits \cup {".", "_", "-", "!", "~", "*", "'", "(", ")"}
                  THEN <<c>>
                  ELSE IF c = " " THEN <<"%", "2", "0">>
                  ELSE IF c = "/" THEN <<"%", "2", "F">>
                  ELSE <<"%", "?", "?">>
        F[i \in 0..Len(s)] == IF i = 0 THEN <<>> ELSE F[i - 1] \o Enc(s[i])
    IN  F[Len(s)]

\* loadTracksJson / loadTracksData: the tracks of tracks.json, or none when the
\* file is missing.
LoadTracks(file) == IF file = Undefined THEN <<>> ELSE Val(file)

\* loadTranslations: the documents of en.json and fr.json.
LoadTranslations(files) == [en |-> files.en, fr |-> files.fr]

\* loadBio: the document of bio.json, or empty texts when it cannot be read.
LoadBio(file) == IF file = Undefined THEN [en |-> <<>>, fr |-> <<>>] ELSE Val(file)

\* A server that keeps what it loaded at start.
ReloadNever == UNCHANGED <<translations, bio>>

\* The first middleware of server.js: both are read again on every request.
Reload ==
    /\ translations' = LoadTranslations(localeFiles)
    /\ bio' = LoadBio(bioFile)

\* A search that takes the last record with the filename.
FindLastIndex(tracks, filename) ==
    IF \E i \in 1..Len(tracks) : tracks[i].filename = filename
    THEN CHOOSE i \in 1..Len(tracks) :
            /\ tracks[i].filename = filename
            /\ \A j \in (i + 1)..Len(tracks) : tracks[j].filename # filename
    ELSE 0

\* tracks.findIndex(t => t.filename === filename), from 1; 0 for -1.
FindIndex(tracks, filename) ==
    IF \E i \in 1..Len(tracks) : tracks[i].filename = filename
    THEN CHOOSE i \in 1..Len(tracks) :
            /\ tracks[i].filename = filename
            /\ \A j \in 1..(i - 1) : tracks[j].filename # filename
    ELSE 0

\* tracks.splice(index, 1)
Splice(tracks, index) ==
    SubSeq(tracks, 1, index - 1) \o SubSeq(tracks, index + 1, Len(tracks))

\* The swap of lines 310-312.
Swap(tracks, index, newIndex) ==
    [tracks EXCEPT ![index] = tracks[newIndex], ![newIndex] = tracks[index]]

\* getAudioFiles of server.js
GetAudioFiles(cache) ==
    [i \in 1..Len(cache) |->
        [url |-> <<"/", "w", "o", "r", "k", "/">> \o EncodeURIComponent(cache[i].filename),
         title |-> cache[i].title]]

\* A test that lets '..' through.
TraversalNoDots(filename) ==
    \/ Includes(filename, <<"/">>)
    \/ Includes(filename, <<"\\">>)

\* The path-traversal test of delete, update and reorder.
Traversal(filename) ==
    \/ Includes(filename, <<"/">>)
    \/ Includes(filename, <<"\\">>)
    \/ Includes(filename, <<".", ".">>)

(***************************************************************************)
(* Responses and handler outcomes                                          *)
(***************************************************************************)
\* `locals` is what a rendered view is given.
Send(status, body) ==
    [status |-> status, body |-> body,
     location |-> [path |-> "", param |-> "", text |-> ""],
     wwwAuthenticate |-> Undefined, locals |-> <<>>]

\* res.redirect(path + '?' + param + '=' + text), or res.redirect(path) with
\* param "" when the URL has no query.
RedirectTo(path, param, text) ==
    [status |-> 302, body |-> "", location |-> [path |-> path, param |-> param, text |-> text],
     wwwAuthenticate |-> Undefined, locals |-> <<>>]

\* What a route handler leaves behind: the files, the tracks cache of server.js,
\* the response, and the filesystem operations it made, in order.
Outcome(res, fs) ==
    [bioFile |-> bioFile, localeFiles |-> localeFiles, tracksFile |-> tracksFile,
     workDir |-> workDir, imagesDir |-> imagesDir, tracksData |-> tracksData,
     res |-> res, fs |-> fs]

\* A save after which the cache of server.js is not read again.
SaveWithoutReload(tracks, dir, res, fs) ==
    [Outcome(res, fs) EXCEPT !.tracksFile = Some(tracks), !.workDir = dir]

\* saveTracksJson(data), the work the handler does on the file, then
\* reloadTracks(): server.js reads tracks.json again into its cache.
SaveAndReload(tracks, dir, res, fs) ==
    [Outcome(res, fs \o <<"read tracks.json">>) EXCEPT
        !.tracksFile = Some(tracks), !.workDir = dir, !.tracksData = tracks]

(***************************************************************************)
(* Track routes                                                            *)
(***************************************************************************)
\* An upload that puts the new record first.
WorkUploadPrepend(filename) ==
    LET tracks == LoadTracks(tracksFile)
        title == BaseName(filename, ExtName(filename))
    IN  SaveAndReload(<<[filename |-> filename, title |-> title]>> \o tracks,
                      workDir \cup {filename},
                      RedirectTo("/admin/work", "message", "Track uploaded successfully"),
                      <<"write file", "read tracks.json", "write tracks.json">>)

\* POST /work/upload after multer stored the file as `filename`.
WorkUpload(filename) ==
    LET tracks == LoadTracks(tracksFile)
        title == BaseName(filename, ExtName(filename))
    IN  SaveAndReload(Append(tracks, [filename |-> filename, title |-> title]),
                      workDir \cup {filename},
                      RedirectTo("/admin/work", "message", "Track uploaded successfully"),
                      <<"write file", "read tracks.json", "write tracks.json">>)

\* audioUpload.single('audio') and the handler: no file part, a file multer
\* refuses (type, size: the router's error handler answers), or a stored file.
AudioUpload(file) ==
    IF file = Undefined THEN
        Outcome(RedirectTo("/admin/work", "error", "No file uploaded"), <<>>)
    ELSE IF ~Val(file).audio THEN
        Outcome(RedirectTo("/admin", "error", "Invalid%20file%20type.%20Allowed%3A%20mp3%2C%20wav%2C%20ogg%2C%20m4a%2C%20flac"), <<>>)
    ELSE IF Val(file).tooLarge THEN
        [Outcome(RedirectTo("/admin", "error", "File too large"), <<"write file", "unlink file">>)
            EXCEPT !.workDir = workDir \ {SafeName(Val(file).originalname)}]
    ELSE WorkUpload(SafeName(Val(file).originalname))

\* A delete that looks the file up first and treats a missing file as an error.
WorkDeleteFileFirst(filename) ==
    IF OrEmpty(filename) = <<>> \/ Traversal(Val(filename)) THEN
        Outcome(RedirectTo("/admin/work", "error", "Invalid filename"), <<>>)
    ELSE IF Val(filename) \notin workDir THEN
        Outcome(RedirectTo("/admin/work", "error", "File not found"), <<"existsSync">>)
    ELSE
        LET tracks == LoadTracks(tracksFile)
            index == FindIndex(tracks, Val(filename))
        IN  SaveAndReload(IF index = 0 THEN tracks ELSE Splice(tracks, index),
                workDir \ {Val(filename)},
                RedirectTo("/admin/work", "message", "Track deleted successfully"),
                <<"existsSync", "unlinkSync", "read tracks.json", "write tracks.json">>)

\* POST /work/delete
WorkDelete(filename) ==
    IF OrEmpty(filename) = <<>> \/ Traversal(Val(filename)) THEN
        Outcome(RedirectTo("/admin/work", "error", "Invalid filename"), <<>>)
    ELSE IF ~StartsWith(PathJoin(WORK_DIR, Val(filename)), WORK_DIR) THEN
        Outcome(RedirectTo("/admin/work", "error", "Invalid path"), <<>>)
    ELSE
        LET tracks == LoadTracks(tracksFile)
            index == FindIndex(tracks, Val(filename))
        IN  IF index = 0 THEN
                Outcome(RedirectTo("/admin/work", "error", "Track not found in database"),
                        <<"read tracks.json">>)
            ELSE
                SaveAndReload(Splice(tracks, index), workDir \ {Val(filename)},
                    RedirectTo("/admin/work", "message", "Track deleted successfully"),
                    <<"read tracks.json", "write tracks.json", "existsSync">>
                    \o (IF Val(filename) \in workDir THEN <<"unlinkSync">> ELSE <<>>))

\* POST /work/update
WorkUpdate(filename, title) ==
    IF OrEmpty(filename) = <<>> \/ OrEmpty(title) = <<>> THEN
        Outcome(RedirectTo("/admin/work", "error", "Missing filename or title"), <<>>)
    ELSE IF Traversal(Val(filename)) THEN
        Outcome(RedirectTo("/admin/work", "error", "Invalid filename"), <<>>)
    ELSE
        LET tracks == LoadTracks(tracksFile)
            index == FindIndex(tracks, Val(filename))
        IN  IF index = 0 THEN
                Outcome(RedirectTo("/admin/work", "error", "Track not found"),
                        <<"read tracks.json">>)
            ELSE
                SaveAndReload([tracks EXCEPT ![index].title = Trim(Val(title))], workDir,
                    RedirectTo("/admin/work", "message", "Title updated successfully"),
                    <<"read tracks.json", "write tracks.json">>)

\* POST /work/reorder
WorkReorder(filename, direction) ==
    IF OrEmpty(filename) = <<>> \/ direction = Undefined \/ direction = Some("") THEN
        Outcome(RedirectTo("/admin/work", "error", "Missing parameters"), <<>>)
    ELSE IF Traversal(Val(filename)) THEN
        Outcome(RedirectTo("/admin/work", "error", "Invalid filename"), <<>>)
    ELSE
        LET tracks == LoadTracks(tracksFile)
            index == FindIndex(tracks, Val(filename))
        IN  IF index = 0 THEN
                Outcome(RedirectTo("/admin/work", "error", "Track not found"),
                        <<"read tracks.json">>)
            ELSE IF Val(direction) = "up" /\ index > 1 THEN
                SaveAndReload(Swap(tracks, index, index - 1), workDir,
                    RedirectTo("/admin/work", "message", "Track reordered"),
                    <<"read tracks.json", "write tracks.json">>)
            ELSE IF Val(direction) = "down" /\ index < Len(tracks) THEN
                SaveAndReload(Swap(tracks, index, index + 1), workDir,
                    RedirectTo("/admin/work", "message", "Track reordered"),
                    <<"read tracks.json", "write tracks.json">>)
            ELSE
                Outcome(RedirectTo("/admin/work", "", ""), <<"read tracks.json">>)

\* GET /work
WorkPage ==
    Outcome([Send(200, "admin/work") EXCEPT !.locals = LoadTracks(tracksFile)],
            <<"read tracks.json">>)

(***************************************************************************)
(* Bio, photo and translations routes                                      *)
(***************************************************************************)
\* POST /about/bio
AboutBio(bioEn, bioFr) ==
    [Outcome(RedirectTo("/admin/about", "message", "Bio saved successfully"), <<"write bio.json">>)
        EXCEPT !.bioFile = Some([en |-> Trim(OrEmpty(bioEn)), fr |-> Trim(OrEmpty(bioFr))])]

\* POST /about/photo: imageUpload.single('photo') stores every accepted file
\* as profile.webp.
AboutPhoto(file) ==
    IF file = Undefined THEN
        Outcome(RedirectTo("/admin/about", "error", "No file uploaded"), <<>>)
    ELSE IF ~Val(file).image THEN
        Outcome(RedirectTo("/admin", "error", "Invalid%20file%20type.%20Allowed%3A%20webp%2C%20jpeg%2C%20png%2C%20gif"), <<>>)
    ELSE
        [Outcome(RedirectTo("/admin/about", "message", "Photo updated successfully"), <<"write file">>)
            EXCEPT !.imagesDir = Some(Val(file).content)]

\* POST /translations: both texts are parsed before either file is written.
\* A field that is not in the body is undefined: JSON.stringify gives
\* undefined for it and writeFileSync throws on that before it opens the file,
\* which the catch of the handler answers like a parse error.
Translations(en, fr) ==
    IF (en.given /\ ~en.valid) \/ (fr.given /\ ~fr.valid) THEN
        Outcome(RedirectTo("/admin/translations", "error", "Invalid JSON format"), <<>>)
    ELSE IF ~en.given THEN
        Outcome(RedirectTo("/admin/translations", "error", "Invalid JSON format"), <<>>)
    ELSE IF ~fr.given THEN
        [Outcome(RedirectTo("/admin/translations", "error", "Invalid JSON format"),
                 <<"write en.json">>)
            EXCEPT !.localeFiles = [en |-> en.doc, fr |-> localeFiles.fr]]
    ELSE
        [Outcome(RedirectTo("/admin/translations", "message", "Translations saved successfully"),
                 <<"write en.json", "write fr.json">>)
            EXCEPT !.localeFiles = [en |-> en.doc, fr |-> fr.doc]]

(***************************************************************************)
(* The admin router: adminLimiter, basicAuth, then the route               *)
(***************************************************************************)
Clients == {"client"}

Pw == <<"p", "w">>

Cred(user, pass) == user \o <<":">> \o pass

\* The environments the server is started with.
ServerEnvs ==
    {[ADMIN_USER |-> Undefined, ADMIN_PASS |-> p] : p \in {Undefined, Some(<<>>), Some(Pw)}}

GoodHeader == BasicHeader(Cred(DefaultAdminUser, Pw))

WrongHeader == BasicHeader(Cred(DefaultAdminUser, <<"p", "p">>))

Headers == {GoodHeader, WrongHeader, Undefined}

\* basicAuth on the requests of the server specifications, computed once.
BasicAuthOf ==
    {[env |-> e, header |-> h, auth |-> BasicAuth(e, h)] : e \in ServerEnvs, h \in Headers}

Lookup(table, e, h) == (CHOOSE t \in table : t.env = e /\ t.header = h).auth

LimiterMax == 100

TooManyRequests == Send(429, "Too many requests, please try again later.")

\* The requests the server has received and not yet answered, by connection.
Sessions == {1, 2}

NoSession ==
    [phase |-> "idle", route |-> "none", body |-> <<>>, out |-> <<>>, stale |-> FALSE,
     during |-> {}]

NoPending == [s \in Sessions |-> NoSession]

NoRequest ==
    [route |-> "none", authHeader |-> Undefined, body |-> <<>>, res |-> Send(0, ""),
     next |-> FALSE, trace |-> <<>>, steps |-> NoSteps, fs |-> <<>>]

\* A router that mounts basicAuth before the limiter.
AnswersAuthFirst(c, h) ==
    IF ~Lookup(BasicAuthOf, env, h).next THEN "basicAuth"
    ELSE IF hits[c] + 1 > LimiterMax THEN "adminLimiter"
    ELSE "route"

\* Which middleware answers a request of client c with Authorization header h:
\* router.use(adminLimiter) comes before router.use(basicAuth), and the routes
\* after both. The limiter counts the request and answers itself once the
\* client is over the limit; basicAuth answers itself unless it calls next().
Answers(c, h) ==
    IF hits[c] + 1 > LimiterMax THEN "adminLimiter"
    ELSE IF ~Lookup(BasicAuthOf, env, h).next THEN "basicAuth"
    ELSE "route"

\* The handler the router runs for a route, on the body its parser or multer
\* hands it.
Handle(route, body) ==
    CASE route = "POST /work/upload" -> AudioUpload(body.file)
      [] route = "POST /work/delete" -> WorkDelete(body.filename)
      [] route = "POST /work/update" -> WorkUpdate(body.filename, body.title)
      [] route = "POST /work/reorder" -> WorkReorder(body.filename, body.direction)
      [] route = "POST /about/bio" -> AboutBio(body.bioEn, body.bioFr)
      [] route = "POST /translations" -> Translations(body.en, body.fr)

\* One request to /admin/<route>, with one of `bodies` when the route runs.
Admin(route, c, h, bodies) ==
    /\ hits' = [hits EXCEPT ![c] = IF @ > LimiterMax THEN @ ELSE @ + 1]
    /\ UNCHANGED <<env, contactHits, pending, prev>>
    /\ Reload
    /\ \E stage \in {Answers(c, h)} :
        CASE stage = "adminLimiter" ->
                /\ last' = [route |-> route, authHeader |-> h, body |-> <<>>,
                            res |-> TooManyRequests, next |-> FALSE,
                            trace |-> <<"adminLimiter">>,
                            steps |-> NoSteps, fs |-> <<>>]
                /\ UNCHANGED <<bioFile, localeFiles, tracksFile, workDir, imagesDir,
                               tracksData>>
          [] stage = "basicAuth" ->
                \E auth \in {Lookup(BasicAuthOf, env, h)} :
                    /\ last' = [route |-> route, authHeader |-> h, body |-> <<>>,
                                res |-> [Send(auth.status, auth.body) EXCEPT
                                            !.wwwAuthenticate = auth.wwwAuthenticate],
                                next |-> auth.next,
                                trace |-> <<"adminLimiter", "basicAuth">>,
                                steps |-> auth.steps, fs |-> <<>>]
                    /\ UNCHANGED <<bioFile, localeFiles, tracksFile, workDir, imagesDir,
                                   tracksData>>
          [] stage = "route" ->
                \E body \in bodies : \E out \in {Handle(route, body)} :
                    /\ last' = [route |-> route, authHeader |-> h, body |-> body,
                                res |-> out.res, next |-> TRUE,
                                trace |-> <<"adminLimiter", "basicAuth", "route">>,
                                steps |-> Lookup(BasicAuthOf, env, h).steps, fs |-> out.fs]
                    /\ bioFile' = out.bioFile
                    /\ localeFiles' = out.localeFiles
                    /\ tracksFile' = out.tracksFile
                    /\ workDir' = out.workDir
                    /\ imagesDir' = out.imagesDir
                    /\ tracksData' = out.tracksData

\* The fixed window of the limiter ends: every count starts again.
WindowReset ==
    /\ \E c \in Clients : hits[c] > 0
    /\ hits' = [c \in Clients |-> 0]
    /\ UNCHANGED <<env, contactHits, pending, bioFile, localeFiles, tracksFile, workDir, imagesDir,
                   tracksData, translations, bio, last, prev>>

(***************************************************************************)
(* Inputs                                                                  *)
(***************************************************************************)
NameA == <<"a", ".", "m">>

NameB == <<"b", " ", "c", ".", "m">>

UploadFiles ==
    {Undefined,
     Some([originalname |-> NameA, audio |-> TRUE, tooLarge |-> FALSE]),
     Some([originalname |-> NameB, audio |-> TRUE, tooLarge |-> FALSE]),
     Some([originalname |-> NameA, audio |-> FALSE, tooLarge |-> FALSE]),
     Some([originalname |-> NameA, audio |-> TRUE, tooLarge |-> TRUE])}

Filenames ==
    {Undefined, Some(NameA), Some(SafeName(NameB)), Some(<<"z", ".", "m">>),
     Some(<<"a", "/", "m">>), Some(<<"a", "\\", "m">>), Some(<<"a", ".", ".", "m">>)}

BioTexts == {Some(<<" ", "B", " ">>)}

\* A pasted JSON text: whether JSON.parse accepts it, and the document it gives.
EnTexts ==
    {[given |-> TRUE, valid |-> TRUE, doc |-> "en1"], [given |-> TRUE, valid |-> FALSE, doc |-> ""],
     [given |-> FALSE, valid |-> FALSE, doc |-> ""]}

FrTexts ==
    {[given |-> TRUE, valid |-> TRUE, doc |-> "fr1"], [given |-> TRUE, valid |-> FALSE, doc |-> ""],
     [given |-> FALSE, valid |-> FALSE, doc |-> ""]}

GateFiles == {Some([originalname |-> NameA, audio |-> TRUE, tooLarge |-> FALSE])}

GateFilenames == {Some(NameA), Some(<<"a", "/", "m">>)}

Titles == {Undefined, Some(<<" ", "T", " ">>)}

Directions == {Undefined, Some("up"), Some("down"), Some("left")}

MaxTracks == 2

MaxBurst == 1

MaxGateTracks == 1

(***************************************************************************)
(* Requests                                                                *)
(***************************************************************************)
\* POST /work/upload with one of `files`, while the registry has room.
UploadRequest(files, cap) ==
    \E c \in Clients, h \in Headers :
        /\ Len(LoadTracks(tracksFile)) < cap
        /\ Admin("POST /work/upload", c, h, [file : files])

DeleteRequest(filenames) ==
    \E c \in Clients, h \in Headers :
        Admin("POST /work/delete", c, h, [filename : filenames])

PostWorkUpload == UploadRequest(UploadFiles, MaxTracks)

PostWorkDelete == DeleteRequest(Filenames)

PostWorkUpdate ==
    \E c \in Clients, h \in Headers :
        Admin("POST /work/update", c, h, [filename : Filenames, title : Titles])

PostWorkReorder ==
    \E c \in Clients, h \in Headers :
        Admin("POST /work/reorder", c, h,
                  [filename : Filenames, direction : Directions])

PostAboutBio ==
    \E c \in Clients, h \in Headers :
        Admin("POST /about/bio", c, h, [bioEn : BioTexts, bioFr : {Undefined}])

PostTranslations ==
    \E c \in Clients, h \in Headers :
        Admin("POST /translations", c, h, [en : EnTexts, fr : FrTexts])

\* GET /, /en, /fr: the landing page with the tracks of the cache.
GetIndex ==
    /\ last' = [NoRequest EXCEPT !.route = "GET /",
                    !.res = [Send(200, "index") EXCEPT !.locals = GetAudioFiles(tracksData)],
                    !.trace = <<"route">>]
    /\ UNCHANGED <<env, hits, contactHits, pending, bioFile, localeFiles, tracksFile, workDir, imagesDir,
                   tracksData, prev>>
    /\ Reload

\* The clients send at most MaxBurst admin requests in one window.
Burst == \A c \in Clients : hits[c] < MaxBurst

Init ==
    /\ env \in ServerEnvs
    /\ hits = [c \in Clients |-> 0]
    /\ contactHits = [c \in Clients |-> 0]
    /\ pending = NoPending
    /\ bioFile = Some([en |-> <<>>, fr |-> <<>>])
    /\ localeFiles = [en |-> "en0", fr |-> "fr0"]
    /\ tracksFile = Undefined
    /\ workDir = {}
    /\ imagesDir = Some("hellajay-pp")
    /\ tracksData = LoadTracks(tracksFile)
    /\ translations = LoadTranslations(localeFiles)
    /\ bio = LoadBio(bioFile)
    /\ last = NoRequest
    /\ prev = NoRequest

Next ==
    \/ WindowReset
    \/ GetIndex
    \/ Burst /\ PostWorkUpload
    \/ Burst /\ PostWorkDelete
    \/ Burst /\ PostWorkUpdate
    \/ Burst /\ PostWorkReorder

Spec == Init /\ [][Next]_vars

\* The admin router under any number of requests: the limiter is reached.
NextGate ==
    \/ WindowReset
    \/ PostAboutBio
    \/ PostTranslations
    \/ UploadRequest(GateFiles, MaxGateTracks)
    \/ DeleteRequest(GateFilenames)

SpecGate == Init /\ [][NextGate]_vars

(***************************************************************************)
(* basicAuth alone, on many environments and headers                       *)
(***************************************************************************)
AuthEnvs ==
    [ADMIN_USER : {Undefined, Some(<<"u", "p">>)},
     ADMIN_PASS : {Undefined, Some(<<>>), Some(Pw), Some(<<"p", ":", "w">>)}]

CandidateUsers ==
    {DefaultAdminUser, <<"a", "d", "n", "i", "n">>, <<"w", "d", "m", "i", "n">>,
     <<"a", "d", "m", "i">>, <<"u", "p">>}

CandidatePasses ==
    {<<>>, Pw, <<"a", "w">>, <<"p", "a">>, <<"p", ":", "w">>, <<"p", "w", ":", "a">>}

\* What a client sends: the credentials it encodes, if any, and the header.
AuthRequests ==
    {[credentials |-> Some(Cred(u, p)), header |-> BasicHeader(Cred(u, p))] :
        u \in CandidateUsers, p \in CandidatePasses}
    \cup {[credentials |-> Some(DefaultAdminUser), header |-> BasicHeader(DefaultAdminUser)],
          [credentials |-> Some(Cred(<<>>, Pw)), header |-> BasicHeader(Cred(<<>>, Pw))],
          [credentials |-> Undefined, header |-> Undefined],
          [credentials |-> Undefined, header |-> Some(<<"B", "a", "s", "i", "c">>)],
          [credentials |-> Undefined, header |-> Some(<<"B", "e", "a", "r", "e", "r", " ", "x">>)]}

BasicAuthAll ==
    {[env |-> e, header |-> r.header, auth |-> BasicAuth(e, r.header)] :
        e \in AuthEnvs, r \in AuthRequests}

InitAuth ==
    /\ env \in AuthEnvs
    /\ hits = [c \in Clients |-> 0]
    /\ contactHits = [c \in Clients |-> 0]
    /\ pending = NoPending
    /\ bioFile = Some([en |-> <<>>, fr |-> <<>>])
    /\ localeFiles = [en |-> "en0", fr |-> "fr0"]
    /\ tracksFile = Undefined
    /\ workDir = {}
    /\ imagesDir = Some("hellajay-pp")
    /\ tracksData = LoadTracks(tracksFile)
    /\ translations = LoadTranslations(localeFiles)
    /\ bio = LoadBio(bioFile)
    /\ last = NoRequest
    /\ prev = NoRequest

\* basicAuth is called with a request; the call before it is kept in prev.
BasicAuthCall ==
    \E r \in AuthRequests : \E auth \in {Lookup(BasicAuthAll, env, r.header)} :
            /\ last' = [route |-> "basicAuth", authHeader |-> r.header,
                        body |-> [credentials |-> r.credentials],
                        res |-> [Send(auth.status, auth.body) EXCEPT
                                    !.wwwAuthenticate = auth.wwwAuthenticate],
                        next |-> auth.next, trace |-> <<"basicAuth">>,
                        steps |-> auth.steps, fs |-> <<>>]
            /\ prev' = last
            /\ UNCHANGED <<env, hits, contactHits, pending, bioFile, localeFiles, tracksFile, workDir, imagesDir,
                           tracksData, translations, bio>>

NextAuth == BasicAuthCall

SpecAuth == InitAuth /\ [][NextAuth]_vars

(***************************************************************************)
(* Properties of basicAuth (SpecAuth)                                      *)
(***************************************************************************)
AuthCalled(r) == r.route = "basicAuth"

\* The credentials string of the configured pair, 'username:password'.
Configured == Cred(AdminUser(env), OrEmpty(env.ADMIN_PASS))

Challenge == Some("Basic realm=\"Admin\"")

\* C1: with ADMIN_PASS set, whenever the Authorization header is 'Basic '
\* followed by the base64 of exactly 'username:password' of the configured
\* pair, basicAuth calls next() and does not answer 401.
C1_CorrectCredentialsPass ==
    (AuthCalled(last) /\ ~NoAdminPass(env) /\ last.body.credentials = Some(Configured))
        => (last.next /\ last.res.status # 401)

\* C2: with ADMIN_PASS set, whenever the header is missing, does not start
\* with 'Basic ', or carries credentials other than the configured pair,
\* basicAuth answers 401 with a WWW-Authenticate Basic challenge and does not
\* call next().
C2_WrongCredentialsRejected ==
    (AuthCalled(last) /\ ~NoAdminPass(env) /\ last.body.credentials # Some(Configured))
        => (/\ last.res.status = 401
            /\ last.res.wwwAuthenticate = Challenge
            /\ ~last.next)

\* The candidate username and password basicAuth compares, for a call that
\* reached the comparison.
Compared(r) == AuthCalled(r) /\ r.steps # NoSteps

UserInput(r) == OrEmpty(HeaderCredentials(Val(r.authHeader)).user)

PassInput(r) == OrEmpty(HeaderCredentials(Val(r.authHeader)).pass)

SameLengths(r1, r2) ==
    /\ Len(UserInput(r1)) = Len(UserInput(r2))
    /\ Len(PassInput(r1)) = Len(PassInput(r2))

Rejected401(r) == r.res.status = 401 /\ ~r.next

\* C5 as stated: two rejected candidates of the same lengths make basicAuth
\* take the same steps, wherever their first mismatching byte is, and no
\* length test is skipped.
C5_SameStepsAnyMismatch ==
    (/\ Compared(prev) /\ Compared(last)
     /\ Rejected401(prev) /\ Rejected401(last)
     /\ SameLengths(prev, last))
        => (/\ prev.steps = last.steps
            /\ \E i \in 1..Len(last.steps) : last.steps[i][1] = "lengthEqUser"
            /\ \E i \in 1..Len(last.steps) : last.steps[i][1] = "lengthEqPass")

\* The byte comparison steps of a call: every step but the length tests.
ByteSteps(r) == SelectSeq(r.steps, LAMBDA st : st[1] \notin {"lengthEqUser", "lengthEqPass"})

HasStep(r, name, n) == \E i \in 1..Len(r.steps) : r.steps[i] = <<name, n>>

\* C5 amended: for two candidates of the same lengths the padding and byte
\* comparison steps are the same wherever the mismatching bytes are; username
\* and password are each compared over the longer of the candidate's and the
\* expected length, whether or not the lengths are equal; the length test of a
\* field is made exactly when the bytes of that field compared equal, so the
\* whole step sequences agree when the same fields mismatch.
C5_SameByteSteps ==
    /\ (Compared(prev) /\ Compared(last) /\ SameLengths(prev, last))
        => (/\ ByteSteps(prev) = ByteSteps(last)
            /\ ((/\ (UserInput(prev) = AdminUser(env)) = (UserInput(last) = AdminUser(env))
                 /\ (PassInput(prev) = Val(env.ADMIN_PASS)) = (PassInput(last) = Val(env.ADMIN_PASS)))
                    => prev.steps = last.steps))
    /\ Compared(last)
        => (/\ HasStep(last, "timingSafeEqualUser",
                       Max(Len(UserInput(last)), Len(AdminUser(env))))
            /\ HasStep(last, "timingSafeEqualPass",
                       Max(Len(PassInput(last)), Len(Val(env.ADMIN_PASS))))
            /\ HasStep(last, "lengthEqUser", 1) = (UserInput(last) = AdminUser(env))
            /\ HasStep(last, "lengthEqPass", 1) = (PassInput(last) = Val(env.ADMIN_PASS)))

\* Two rejected candidates of the same lengths whose first mismatching byte is
\* at different positions of the password.
C5_Witness ==
    /\ Compared(prev) /\ Compared(last)
    /\ Rejected401(prev) /\ Rejected401(last)
    /\ SameLengths(prev, last)
    /\ UserInput(prev) = AdminUser(env) /\ UserInput(last) = AdminUser(env)
    /\ env.ADMIN_PASS = Some(Pw)
    /\ PassInput(prev) = <<"a", "w">>
    /\ PassInput(last) = <<"p", "a">>

(***************************************************************************)
(* Properties of the admin router (SpecGate)                               *)
(***************************************************************************)
\* A step in which the admin router received a request.
AdminStep ==
    \/ \E c \in Clients : hits'[c] = hits[c] + 1
    \/ last' # last /\ last'.route \notin {"none", "GET /", "basicAuth"}

StoreUnchanged == UNCHANGED <<bioFile, localeFiles, tracksFile, workDir, imagesDir>>

\* C3: a request to an admin path goes through the limiter, then basicAuth,
\* then the route; request number 101 and later of a client in one window get
\* the limiter's fixed answer with no credentials evaluated, earlier ones do
\* not; a request answered by the limiter or by basicAuth leaves the bio, the
\* tracks document, the locale documents and the uploaded files as they were.
C3_LimiterThenAuthThenRoute ==
    [][AdminStep =>
        /\ last'.trace \in {<<"adminLimiter">>, <<"adminLimiter", "basicAuth">>,
                            <<"adminLimiter", "basicAuth", "route">>}
        /\ \A c \in Clients :
            /\ hits[c] >= 100 =>
                /\ last'.res = Send(429, "Too many requests, please try again later.")
                /\ last'.trace = <<"adminLimiter">>
                /\ last'.steps = NoSteps
            /\ hits[c] < 100 => last'.res.status # 429 /\ Len(last'.trace) >= 2
        /\ last'.trace # <<"adminLimiter", "basicAuth", "route">> =>
                StoreUnchanged /\ UNCHANGED tracksData
        /\ last'.trace = <<"adminLimiter", "basicAuth", "route">> => last'.next
      ]_vars

\* A request with the right credentials is answered by the limiter after
\* earlier requests changed the store.
C3_Witness ==
    /\ last.res.status = 429
    /\ last.authHeader = GoodHeader
    /\ env.ADMIN_PASS = Some(Pw)
    /\ tracksFile # Undefined
    /\ localeFiles.en = "en1"

\* C4 as stated: without ADMIN_PASS every admin request is answered 500 and
\* no route runs.
C4_AlwaysServerError ==
    (NoAdminPass(env) /\ last.route # "none")
        => (last.res.status = 500 /\ Len(last.trace) < 3)

\* C4 amended: without ADMIN_PASS (unset or empty) every admin request the
\* limiter lets through is answered 500 'Server configuration error', whatever
\* its Authorization header; the ones over the limit are answered 429; no
\* route runs, so the store stays as it was at start.
C4_ServerErrorPastLimiter ==
    (NoAdminPass(env) /\ last.route # "none")
        => (/\ ~last.next
            /\ Len(last.trace) < 3
            /\ last.trace = <<"adminLimiter", "basicAuth">> =>
                    last.res = Send(500, "Server configuration error")
            /\ last.trace = <<"adminLimiter">> => last.res.status = 429
            /\ tracksFile = Undefined /\ workDir = {}
            /\ bioFile = Some([en |-> <<>>, fr |-> <<>>])
            /\ localeFiles = [en |-> "en0", fr |-> "fr0"])

\* Without ADMIN_PASS, a request with no Authorization header is answered 500.
C4_Witness ==
    /\ NoAdminPass(env)
    /\ last.route = "POST /about/bio"
    /\ last.authHeader = Undefined
    /\ last.res.status = 500

(***************************************************************************)
(* Properties of the track routes (Spec)                                   *)
(***************************************************************************)
\* A step in which the handler of `route` ran.
Handled(route) == AdminStep /\ last'.route = route /\ last'.next

HasAny(t, elems) == \E i \in 1..Len(t) : t[i] \in elems

\* The filename contains '/', '\' or '..'.
Unsafe(f) ==
    \/ HasAny(f, {"/", "\\"})
    \/ \E i \in 1..(Len(f) - 1) : f[i] = "." /\ f[i + 1] = "."

IsError(res) == res.status = 302 /\ res.location.param = "error"

IsMessage(res) == res.status = 302 /\ res.location.param = "message"

Position(t, x) == CHOOSE i \in 1..Len(t) : t[i] = x

\* C6: a delete, update or reorder request whose filename contains '/', '\'
\* or '..' is answered with an error redirect without any filesystem
\* operation: tracks.json is neither read nor written, no file is looked up
\* or removed, and the tracks cache stays.
C6_TraversalRejectedFirst ==
    [][\A route \in {"POST /work/delete", "POST /work/update", "POST /work/reorder"} :
        (/\ Handled(route)
         /\ last'.body.filename # Undefined
         /\ Unsafe(Val(last'.body.filename)))
            => (/\ IsError(last'.res)
                /\ last'.fs = <<>>
                /\ UNCHANGED <<tracksFile, workDir, tracksData>>)
      ]_vars

\* A reorder of 'a..m' is refused while tracks are registered.
C6_Witness ==
    /\ last.route = "POST /work/reorder"
    /\ last.next
    /\ last.body.filename = Some(<<"a", ".", ".", "m">>)
    /\ last.body.direction = Some("up")
    /\ last.res.location.text = "Invalid filename"
    /\ Len(LoadTracks(tracksFile)) = 2

\* C7: delete of a filename that passes validation. With a record of that
\* filename in the registry, one such record is removed and tracks.json is
\* written before the file is looked up; the file is unlinked exactly when it
\* exists, and the answer is the success message either way. With no such
\* record the answer is an error and neither registry nor files change.
C7_DeleteRecordThenFile ==
    [][(/\ Handled("POST /work/delete")
        /\ OrEmpty(last'.body.filename) # <<>>
        /\ ~Unsafe(Val(last'.body.filename)))
        => LET f == Val(last'.body.filename)
               tracks == LoadTracks(tracksFile)
           IN  IF \E i \in 1..Len(tracks) : tracks[i].filename = f
               THEN /\ \E i \in 1..Len(tracks) :
                        /\ tracks[i].filename = f
                        /\ tracksFile' = Some([j \in 1..(Len(tracks) - 1) |->
                                                IF j < i THEN tracks[j] ELSE tracks[j + 1]])
                    /\ workDir' = workDir \ {f}
                    /\ HasAny(last'.fs, {"write tracks.json"})
                    /\ HasAny(last'.fs, {"existsSync"})
                    /\ Position(last'.fs, "write tracks.json") < Position(last'.fs, "existsSync")
                    /\ HasAny(last'.fs, {"unlinkSync"}) = (f \in workDir)
                    /\ HasAny(last'.fs, {"unlinkSync"}) =>
                            Position(last'.fs, "existsSync") < Position(last'.fs, "unlinkSync")
                    /\ IsMessage(last'.res)
               ELSE /\ IsError(last'.res)
                    /\ UNCHANGED <<tracksFile, workDir, tracksData>>
      ]_vars

\* A delete succeeded for a registered filename whose file was not on disk.
C7_Witness ==
    /\ last.route = "POST /work/delete"
    /\ last.next
    /\ last.res.location.text = "Track deleted successfully"
    /\ ~HasAny(last.fs, {"unlinkSync"})
    /\ Len(LoadTracks(tracksFile)) = 0

\* C8: moving the first track up or the last track down answers without an
\* error and leaves tracks.json and the tracks cache as they were.
C8_BoundaryNoOp ==
    [][(/\ Handled("POST /work/reorder")
        /\ last'.body.filename # Undefined
        /\ LoadTracks(tracksFile) # <<>>)
        => LET f == Val(last'.body.filename)
               tracks == LoadTracks(tracksFile)
           IN  (\/ last'.body.direction = Some("up") /\ tracks[1].filename = f
                \/ last'.body.direction = Some("down") /\ tracks[Len(tracks)].filename = f)
                    => (/\ ~IsError(last'.res)
                        /\ UNCHANGED <<tracksFile, tracksData>>)
      ]_vars

\* C9: a reorder of the track at index i, not at the boundary of its
\* direction, exchanges the records at i and i-1 (up) or i and i+1 (down) and
\* leaves every other position as it was.
C9_SwapWithNeighbour ==
    [][(/\ Handled("POST /work/reorder")
        /\ last'.body.filename # Undefined)
        => LET f == Val(last'.body.filename)
               tracks == LoadTracks(tracksFile)
               after == LoadTracks(tracksFile')
           IN  \A i \in 1..Len(tracks) :
                tracks[i].filename = f =>
                    /\ (last'.body.direction = Some("up") /\ i > 1) =>
                            after = [tracks EXCEPT ![i] = tracks[i - 1], ![i - 1] = tracks[i]]
                    /\ (last'.body.direction = Some("down") /\ i < Len(tracks)) =>
                            after = [tracks EXCEPT ![i] = tracks[i + 1], ![i + 1] = tracks[i]]
      ]_vars

\* The name without its extension: what precedes the last '.', unless the
\* name has no '.' after its first character.
WithoutExtension(name) ==
    IF \E i \in 2..Len(name) : name[i] = "."
    THEN SubSeq(name, 1, (CHOOSE i \in 2..Len(name) :
                            name[i] = "." /\ \A j \in (i + 1)..Len(name) : name[j] # ".") - 1)
    ELSE name

WorkUrl(filename) == <<"/", "w", "o", "r", "k", "/">> \o filename

\* C10: a successful audio upload appends one record, {filename: the
\* sanitized name, title: that name without its extension}, after the records
\* there were, which stay as they were; the tracks cache holds the same
\* sequence, and GET / lists the cache in order as {url: '/work/<filename>',
\* title}, so the new track comes last.
C10_UploadAppends ==
    [][/\ (/\ Handled("POST /work/upload")
           /\ IsMessage(last'.res))
            => LET name == SafeName(Val(last'.body.file).originalname)
                   record == [filename |-> name, title |-> WithoutExtension(name)]
               IN  /\ tracksFile' = Some(LoadTracks(tracksFile) \o <<record>>)
                   /\ tracksData' = LoadTracks(tracksFile')
                   /\ name \in workDir'
       /\ (last' # last /\ last'.route = "GET /")
            => /\ last'.res.status = 200
               /\ last'.res.locals =
                    [i \in 1..Len(tracksData) |->
                        [url |-> WorkUrl(tracksData[i].filename),
                         title |-> tracksData[i].title]]
               /\ UNCHANGED tracksData
      ]_vars

\* 'b c.m' was uploaded after another track and GET / lists it last.
C10_Witness ==
    /\ last.route = "GET /"
    /\ Len(last.res.locals) = 2
    /\ last.res.locals[2] = [url |-> <<"/", "w", "o", "r", "k", "/", "b", "_", "c", ".", "m">>,
                             title |-> <<"b", "_", "c">>]
    /\ LoadTracks(tracksFile)[2] = [filename |-> <<"b", "_", "c", ".", "m">>,
                                    title |-> <<"b", "_", "c">>]

(***************************************************************************)
(* audioStorage.filename alone, on many original names                     *)
(***************************************************************************)
MaxNameLen == 3

NameChars == {"a", "Z", "7", ".", "_", "-", " ", "/"}

\* file.originalname as multer hands it to the filename callback.
OriginalNames == UNION {[1..n -> NameChars] : n \in 0..MaxNameLen}

InitName ==
    /\ env = [ADMIN_USER |-> Undefined, ADMIN_PASS |-> Some(Pw)]
    /\ hits = [c \in Clients |-> 0]
    /\ contactHits = [c \in Clients |-> 0]
    /\ pending = NoPending
    /\ bioFile = Some([en |-> <<>>, fr |-> <<>>])
    /\ localeFiles = [en |-> "en0", fr |-> "fr0"]
    /\ tracksFile = Undefined
    /\ workDir = {}
    /\ imagesDir = Some("hellajay-pp")
    /\ tracksData = LoadTracks(tracksFile)
    /\ translations = LoadTranslations(localeFiles)
    /\ bio = LoadBio(bioFile)
    /\ last \in {[NoRequest EXCEPT !.body = [originalname |-> n]] : n \in OriginalNames}
    /\ prev = NoRequest

\* multer calls the filename callback for the uploaded file.
AudioFilename ==
    /\ last.route = "none"
    /\ last' = [last EXCEPT !.route = "audioStorage.filename",
                            !.body = [originalname |-> last.body.originalname,
                                      filename |-> SafeName(last.body.originalname)]]
    /\ UNCHANGED <<env, hits, contactHits, pending, bioFile, localeFiles, tracksFile, workDir, imagesDir,
                   tracksData, translations, bio, prev>>

NextName == AudioFilename

SpecName == InitName /\ [][NextName]_vars

(***************************************************************************)
(* Properties of audioStorage.filename (SpecName)                          *)
(***************************************************************************)
\* The characters of [A-Za-z0-9._-] among those of the names.
AllowedChars == {"a", "Z", "7", ".", "_", "-"}

\* C11: the stored filename has the length of the original name, holds at
\* each position the original character when that is one of [A-Za-z0-9._-]
\* and '_' otherwise, so it contains only characters of that set and equals
\* the original when the original contains only such characters.
C11_SanitizedName ==
    last.route = "audioStorage.filename" =>
        LET o == last.body.originalname
            f == last.body.filename
        IN  /\ Len(f) = Len(o)
            /\ \A i \in 1..Len(o) :
                /\ f[i] \in AllowedChars
                /\ o[i] \in AllowedChars => f[i] = o[i]
                /\ o[i] \notin AllowedChars => f[i] = "_"
            /\ (\A i \in 1..Len(o) : o[i] \in AllowedChars) => f = o

\* 'a /' was stored as 'a__'.
C11_Witness ==
    /\ last.route = "audioStorage.filename"
    /\ last.body.originalname = <<"a", " ", "/">>
    /\ last.body.filename = <<"a", "_", "_">>

(***************************************************************************)
(* POST /api/contact                                                       *)
(***************************************************************************)
\* A field of the contact form is absent or has a length; an email is or is
\* not an address isEmail accepts (it refuses everything over 254 characters).
\* process.env.X && ...: unset and empty are both falsy.
Truthy(o) == OrEmpty(o) # <<>>

\* res.status(status).json(obj)
Json(status, obj) == [Send(status, "json") EXCEPT !.locals = obj]

FieldLength(v) == IF v = Undefined THEN 0 ELSE Val(v).length

\* body('email').isEmail().isLength({ max: 254 })
EmailErrors(v) ==
    (IF v = Undefined \/ ~Val(v).isEmail THEN <<"Valid email is required">> ELSE <<>>)
    \o (IF FieldLength(v) > 254 THEN <<"Email too long">> ELSE <<>>)

\* body('message').notEmpty().isLength({ max: 5000 })
MessageErrors(v) ==
    (IF FieldLength(v) = 0 THEN <<"Message is required">> ELSE <<>>)
    \o (IF FieldLength(v) > 5000 THEN <<"Message too long (max 5000 characters)">> ELSE <<>>)

\* body(field).optional().isLength({ max })
OptionalErrors(v, max, msg) ==
    IF v # Undefined /\ FieldLength(v) > max THEN <<msg>> ELSE <<>>

\* An evaluation that reports the message before the email.
ContactErrorsMessageFirst(body) ==
    MessageErrors(body.message)
    \o EmailErrors(body.email)
    \o OptionalErrors(body.bandName, 200, "Band name too long")
    \o OptionalErrors(body.numberOfSongs, 50, "Number of songs too long")
    \o OptionalErrors(body.links, 1000, "Links too long")

\* validationResult(req).array() after contactValidation: the errors of the
\* chains in their order, each chain running all its validators.
ContactErrors(body) ==
    EmailErrors(body.email)
    \o MessageErrors(body.message)
    \o OptionalErrors(body.bandName, 200, "Band name too long")
    \o OptionalErrors(body.numberOfSongs, 50, "Number of songs too long")
    \o OptionalErrors(body.links, 1000, "Links too long")

MailConfigured(e) ==
    Truthy(e.GMAIL_USER) /\ Truthy(e.GMAIL_APP_PASSWORD) /\ Truthy(e.CONTACT_EMAIL)

Received == Json(200, [success |-> TRUE, message |-> "Message received! Thank you for reaching out."])

\* A handler that answers 500 when sendMail rejects.
ContactFailing(body, e, delivery) ==
    IF ContactErrors(body) # <<>> THEN
        [res |-> Json(400, [success |-> FALSE, error |-> ContactErrors(body)[1]]),
         effects |-> <<>>]
    ELSE IF ~MailConfigured(e) THEN
        [res |-> Received, effects |-> <<"log submission">>]
    ELSE IF delivery = "sent" THEN
        [res |-> Received, effects |-> <<"log submission", "sendMail", "log sent">>]
    ELSE
        [res |-> Json(500, [success |-> FALSE, error |-> "An unexpected error occurred"]),
         effects |-> <<"log submission", "sendMail", "log error">>]

\* The handler of POST /api/contact: its response and, in order, what it does.
\* `delivery` is what emailTransporter.sendMail does when it is called.
Contact(body, e, delivery) ==
    IF ContactErrors(body) # <<>> THEN
        [res |-> Json(400, [success |-> FALSE, error |-> ContactErrors(body)[1]]),
         effects |-> <<>>]
    ELSE IF ~MailConfigured(e) THEN
        [res |-> Received, effects |-> <<"log submission">>]
    ELSE IF delivery = "sent" THEN
        [res |-> Received, effects |-> <<"log submission", "sendMail", "log sent">>]
    ELSE
        [res |-> Received, effects |-> <<"log submission", "sendMail", "log error">>]

ContactMax == 5

ContactTooMany == Json(429, [success |-> FALSE, error |-> "Too many requests, please try again later."])

Emails ==
    {Undefined, Some([isEmail |-> FALSE, length |-> 3]), Some([isEmail |-> TRUE, length |-> 7]),
     Some([isEmail |-> FALSE, length |-> 255])}

Messages == {Undefined, Some([length |-> 0]), Some([length |-> 5]), Some([length |-> 5001])}

\* The optional fields: absent, within their maximum, or over it.
OptionalFields ==
    {[bandName |-> Undefined, numberOfSongs |-> Undefined, links |-> Undefined],
     [bandName |-> Some([length |-> 200]), numberOfSongs |-> Some([length |-> 50]),
      links |-> Some([length |-> 1000])],
     [bandName |-> Some([length |-> 201]), numberOfSongs |-> Some([length |-> 51]),
      links |-> Undefined],
     [bandName |-> Undefined, numberOfSongs |-> Some([length |-> 51]),
      links |-> Some([length |-> 1001])],
     [bandName |-> Undefined, numberOfSongs |-> Undefined, links |-> Some([length |-> 1001])]}

ContactBodies ==
    {[email |-> e, message |-> m, bandName |-> o.bandName,
      numberOfSongs |-> o.numberOfSongs, links |-> o.links] :
        e \in Emails, m \in Messages, o \in OptionalFields}

ContactEnvs ==
    [ADMIN_USER : {Undefined}, ADMIN_PASS : {Some(Pw)},
     GMAIL_USER : {Undefined, Some(<<"g">>)},
     GMAIL_APP_PASSWORD : {Undefined, Some(<<"s">>)},
     CONTACT_EMAIL : {Undefined, Some(<<>>), Some(<<"c">>)}]

InitContact ==
    /\ env \in ContactEnvs
    /\ hits = [c \in Clients |-> 0]
    /\ contactHits = [c \in Clients |-> 0]
    /\ pending = NoPending
    /\ bioFile = Some([en |-> <<>>, fr |-> <<>>])
    /\ localeFiles = [en |-> "en0", fr |-> "fr0"]
    /\ tracksFile = Undefined
    /\ workDir = {}
    /\ imagesDir = Some("hellajay-pp")
    /\ tracksData = LoadTracks(tracksFile)
    /\ translations = LoadTranslations(localeFiles)
    /\ bio = LoadBio(bioFile)
    /\ last = NoRequest
    /\ prev = NoRequest

\* What sendMail can do in a request: nothing when it is not called.
Deliveries(admitted, body, e) ==
    IF admitted /\ ContactErrors(body) = <<>> /\ MailConfigured(e)
    THEN {"sent", "fails"} ELSE {"none"}

\* One request to /api/contact: the reload middleware, contactLimiter,
\* contactValidation, then the handler.
PostContact ==
    \E c \in Clients, body \in ContactBodies :
      \E delivery \in Deliveries(contactHits[c] + 1 <= ContactMax, body, env) :
        /\ Reload
        /\ contactHits' = [contactHits EXCEPT ![c] = IF @ > ContactMax THEN @ ELSE @ + 1]
        /\ UNCHANGED pending
        /\ IF contactHits[c] + 1 > ContactMax THEN
                last' = [route |-> "POST /api/contact", authHeader |-> Undefined,
                         body |-> body, res |-> ContactTooMany, next |-> FALSE,
                         trace |-> <<"contactLimiter">>, steps |-> NoSteps, fs |-> <<>>,
                         delivery |-> delivery, effects |-> <<>>]
           ELSE
                \E out \in {Contact(body, env, delivery)} :
                    last' = [route |-> "POST /api/contact", authHeader |-> Undefined,
                             body |-> body, res |-> out.res, next |-> TRUE,
                             trace |-> <<"contactLimiter", "contactValidation", "route">>,
                             steps |-> NoSteps, fs |-> <<>>,
                             delivery |-> delivery, effects |-> out.effects]
        /\ UNCHANGED <<env, hits, bioFile, localeFiles, tracksFile, workDir, imagesDir,
                       tracksData, prev>>

\* The 15-minute window of contactLimiter ends.
ContactWindowReset ==
    /\ \E c \in Clients : contactHits[c] > 0
    /\ contactHits' = [c \in Clients |-> 0]
    /\ UNCHANGED pending
    /\ UNCHANGED <<env, hits, bioFile, localeFiles, tracksFile, workDir, imagesDir,
                   tracksData, translations, bio, last, prev>>

NextContact == PostContact \/ ContactWindowReset

SpecContact == InitContact /\ [][NextContact]_vars

(***************************************************************************)
(* Properties of POST /api/contact (SpecContact)                           *)
(***************************************************************************)
Validated(r) == r.route = "POST /api/contact" /\ Len(r.trace) = 3

Count(t, x) == Cardinality({i \in 1..Len(t) : t[i] = x})

\* The body has a valid email of at most 254 characters, a message of 1 to
\* 5000 characters, and no optional field over its maximum.
ValidBody(b) ==
    /\ b.email # Undefined /\ Val(b.email).isEmail /\ Val(b.email).length <= 254
    /\ b.message # Undefined /\ Val(b.message).length \in 1..5000
    /\ b.bandName # Undefined => Val(b.bandName).length <= 200
    /\ b.numberOfSongs # Undefined => Val(b.numberOfSongs).length <= 50
    /\ b.links # Undefined => Val(b.links).length <= 1000

AllMailSettings ==
    /\ env.GMAIL_USER \notin {Undefined, Some(<<>>)}
    /\ env.GMAIL_APP_PASSWORD \notin {Undefined, Some(<<>>)}
    /\ env.CONTACT_EMAIL \notin {Undefined, Some(<<>>)}

\* C12: a contact request that passed validation is answered 200 with
\* success: true; without the mail credentials or the recipient no email is
\* attempted; with them sendMail is called once, whether it succeeds or
\* fails, and a failure is logged only.
C12_ValidContactSucceeds ==
    (Validated(last) /\ ValidBody(last.body))
        => (/\ last.res.status = 200
            /\ last.res.locals.success = TRUE
            /\ Count(last.effects, "sendMail") = (IF AllMailSettings THEN 1 ELSE 0)
            /\ Count(last.effects, "log error")
                = (IF AllMailSettings /\ last.delivery = "fails" THEN 1 ELSE 0))

\* sendMail failed for a valid request and the answer is 200, success: true.
C12_Witness ==
    /\ Validated(last) /\ ValidBody(last.body)
    /\ AllMailSettings
    /\ last.delivery = "fails"
    /\ last.effects = <<"log submission", "sendMail", "log error">>
    /\ last.res.status = 200 /\ last.res.locals.success = TRUE

\* The message of the first validator that fails, in the order email,
\* message, bandName, numberOfSongs, links.
FirstError(b) ==
    IF b.email = Undefined \/ ~Val(b.email).isEmail THEN "Valid email is required"
    ELSE IF Val(b.email).length > 254 THEN "Email too long"
    ELSE IF b.message = Undefined \/ Val(b.message).length = 0 THEN "Message is required"
    ELSE IF Val(b.message).length > 5000 THEN "Message too long (max 5000 characters)"
    ELSE IF b.bandName # Undefined /\ Val(b.bandName).length > 200 THEN "Band name too long"
    ELSE IF b.numberOfSongs # Undefined /\ Val(b.numberOfSongs).length > 50
        THEN "Number of songs too long"
    ELSE "Links too long"

\* C13: a contact request that reaches validation and fails it is answered
\* 400 with {success: false, error: the message of the first validation
\* error}, and no email is attempted.
C13_InvalidContactRejected ==
    (Validated(last) /\ ~ValidBody(last.body))
        => (/\ last.res.status = 400
            /\ last.res.locals = [success |-> FALSE, error |-> FirstError(last.body)]
            /\ Count(last.effects, "sendMail") = 0)

\* A request with a valid email and no message, mail configured, is answered
\* 400 'Message is required'.
C13_Witness ==
    /\ Validated(last)
    /\ last.body.email # Undefined
    /\ Val(last.body.email).isEmail
    /\ last.body.message = Undefined
    /\ AllMailSettings
    /\ last.res.status = 400
    /\ last.res.locals.error = "Message is required"
    /\ last.effects = <<>>

(***************************************************************************)
(* The language middleware                                                 *)
(***************************************************************************)
\* req.path.match(/^\/(en|fr)$/)?.[1]
PathLang(path) ==
    IF path = <<"/", "e", "n">> THEN Some("en")
    ELSE IF path = <<"/", "f", "r">> THEN Some("fr")
    ELSE Undefined

\* The languages the server offers, in the order of the call.
Offered == <<"en", "fr">>

\* How an entry of Accept-Language matches an offered language: exactly (4),
\* by its prefix, as fr-CA matches fr (2), as the wildcard (0), or not at all.
Specify(lang, spec, o, i) ==
    IF spec.full = lang THEN Some([i |-> i, o |-> o, q |-> spec.q, s |-> 4])
    ELSE IF spec.prefix = lang THEN Some([i |-> i, o |-> o, q |-> spec.q, s |-> 2])
    ELSE IF spec.full = "*" THEN Some([i |-> i, o |-> o, q |-> spec.q, s |-> 0])
    ELSE Undefined

\* The entries are tried in order; one replaces the kept one when it is more
\* specific, then of higher quality, then later in the header.
Replaces(a, b) ==
    \/ a.s > b.s
    \/ a.s = b.s /\ a.q > b.q
    \/ a.s = b.s /\ a.q = b.q /\ a.o > b.o

LanguagePriority(lang, accepts, i) ==
    LET matches == UNION {Specify(lang, accepts[o], o, i) : o \in 1..Len(accepts)}
    IN  IF matches = {} THEN [i |-> i, o |-> 0, q |-> 0, s |-> 0]
        ELSE CHOOSE m \in matches : \A n \in matches \ {m} : Replaces(m, n)

\* The order of the acceptable languages: quality, specificity, position in
\* the header, position in the call.
Before(a, b) ==
    \/ a.q > b.q
    \/ a.q = b.q /\ a.s > b.s
    \/ a.q = b.q /\ a.s = b.s /\ a.o < b.o
    \/ a.q = b.q /\ a.s = b.s /\ a.o = b.o /\ a.i < b.i

\* req.acceptsLanguages('en', 'fr'): the preferred offered language, if one is
\* acceptable. No header accepts everything.
AcceptsLanguages(header) ==
    LET accepts == IF header = Undefined THEN <<[full |-> "*", prefix |-> "*", q |-> 10]>>
                   ELSE Val(header)
        priorities == {LanguagePriority(Offered[i], accepts, i) : i \in 1..Len(Offered)}
        acceptable == {pr \in priorities : pr.q > 0}
    IN  IF acceptable = {} THEN Undefined
        ELSE Some(Offered[(CHOOSE pr \in acceptable :
                            \A other \in acceptable \ {pr} : Before(pr, other)).i])

\* A middleware that asks the header before the path.
LangHeaderFirst(path, header) ==
    IF AcceptsLanguages(header) # Undefined THEN Val(AcceptsLanguages(header))
    ELSE IF PathLang(path) # Undefined THEN Val(PathLang(path))
    ELSE "en"

\* res.locals.lang = pathLang || headerLang || 'en'
Lang(path, header) ==
    IF PathLang(path) # Undefined THEN Val(PathLang(path))
    ELSE IF AcceptsLanguages(header) # Undefined THEN Val(AcceptsLanguages(header))
    ELSE "en"

MaxAccept == 2

\* Entries of an Accept-Language header; q is in tenths.
AcceptEntries ==
    {[full |-> t[1], prefix |-> t[2], q |-> q] :
        t \in {<<"en", "en">>, <<"fr", "fr">>, <<"fr-ca", "fr">>, <<"de", "de">>, <<"*", "*">>},
        q \in {0, 5, 10}}

AcceptHeaders ==
    {Undefined} \cup {Some(h) : h \in UNION {[1..n -> AcceptEntries] : n \in 0..MaxAccept}}

Paths ==
    {<<"/">>, <<"/", "e", "n">>, <<"/", "f", "r">>, <<"/", "e", "n", "/">>,
     <<"/", "E", "N">>, <<"/", "f", "r", "a">>}

InitLang ==
    /\ env = [ADMIN_USER |-> Undefined, ADMIN_PASS |-> Some(Pw)]
    /\ hits = [c \in Clients |-> 0]
    /\ contactHits = [c \in Clients |-> 0]
    /\ pending = NoPending
    /\ bioFile = Some([en |-> <<>>, fr |-> <<>>])
    /\ localeFiles = [en |-> "en0", fr |-> "fr0"]
    /\ tracksFile = Undefined
    /\ workDir = {}
    /\ imagesDir = Some("hellajay-pp")
    /\ tracksData = LoadTracks(tracksFile)
    /\ translations = LoadTranslations(localeFiles)
    /\ bio = LoadBio(bioFile)
    /\ last \in {[NoRequest EXCEPT !.body = [path |-> pa, acceptLanguage |-> h]] :
                    pa \in Paths, h \in AcceptHeaders}
    /\ prev = NoRequest

\* The language middleware runs on the request.
LangMiddleware ==
    /\ last.route = "none"
    /\ last' = [last EXCEPT !.route = "lang",
                    !.res = [Send(0, "") EXCEPT
                        !.locals = [lang |-> Lang(last.body.path, last.body.acceptLanguage)]]]
    /\ UNCHANGED <<env, hits, contactHits, pending, bioFile, localeFiles, tracksFile, workDir,
                   imagesDir, tracksData, translations, bio, prev>>

NextLang == LangMiddleware

SpecLang == InitLang /\ [][NextLang]_vars

(***************************************************************************)
(* Properties of the language middleware (SpecLang)                        *)
(***************************************************************************)
\* How closely an entry names a language: exactly, by its prefix, as the
\* wildcard, or not at all.
Closeness(entry, lang) ==
    IF entry.full = lang THEN 3
    ELSE IF entry.prefix = lang THEN 2
    ELSE IF entry.full = "*" THEN 1
    ELSE 0

\* The header accepts a language when one of the entries that name it most
\* closely has a quality above 0 (fr;q=0 refuses fr even next to fr-CA).
Accepts(header, lang) ==
    \E o \in 1..Len(header) :
        /\ Closeness(header[o], lang) > 0
        /\ header[o].q > 0
        /\ \A n \in 1..Len(header) : Closeness(header[n], lang) <= Closeness(header[o], lang)

\* C14: the language is 'en' or 'fr'; on the path /en or /fr it is that of
\* the path, whatever the header; otherwise it is the language negotiated
\* from Accept-Language among en and fr, which an entry of the header accepts
\* ('en' when there is no header); when the path names no language and the
\* header accepts neither, it is 'en'.
C14_LanguageChosen ==
    last.route = "lang" =>
        LET lang == last.res.locals.lang
            path == last.body.path
            header == last.body.acceptLanguage
        IN  /\ lang \in {"en", "fr"}
            /\ path = <<"/", "e", "n">> => lang = "en"
            /\ path = <<"/", "f", "r">> => lang = "fr"
            /\ path \notin {<<"/", "e", "n">>, <<"/", "f", "r">>} =>
                /\ header = Undefined => lang = "en"
                /\ AcceptsLanguages(header) # Undefined => lang = Val(AcceptsLanguages(header))
                /\ header # Undefined =>
                    /\ (~Accepts(Val(header), "en") /\ ~Accepts(Val(header), "fr"))
                            => (lang = "en" /\ AcceptsLanguages(header) = Undefined)
                    /\ (Accepts(Val(header), "en") /\ ~Accepts(Val(header), "fr"))
                            => lang = "en"
                    /\ (~Accepts(Val(header), "en") /\ Accepts(Val(header), "fr"))
                            => lang = "fr"
                    /\ lang = "fr" => Accepts(Val(header), "fr")

\* On /fr with a header that prefers en, the language is fr.
C14_Witness ==
    /\ last.route = "lang"
    /\ last.body.path = <<"/", "f", "r">>
    /\ last.body.acceptLanguage = Some(<<[full |-> "en", prefix |-> "en", q |-> 10]>>)
    /\ last.res.locals.lang = "fr"

(***************************************************************************)
(* The translation helper t(key, lang)                                     *)
(***************************************************************************)
\* JavaScript values of a parsed JSON document.
JsUndefined == [kind |-> "undefined"]

JsNull == [kind |-> "null"]

Str(chars) == [kind |-> "string", value |-> chars]

Num(n) == [kind |-> "number", value |-> n]

Obj(fields) == [kind |-> "object", fields |-> fields]

NoFields == [k \in {} |-> JsUndefined]

\* value?.[k]: undefined on undefined and null, the member of an object, the
\* length of a string, undefined otherwise.
Member(value, k) ==
    IF value.kind = "object" THEN
        IF k \in DOMAIN value.fields THEN value.fields[k] ELSE JsUndefined
    ELSE IF value.kind = "string" /\ k = <<"l", "e", "n", "g", "t", "h">> THEN
        Num(Len(value.value))
    ELSE JsUndefined

\* x || ...: what JavaScript takes for false.
Falsy(value) ==
    \/ value.kind \in {"undefined", "null"}
    \/ value.kind = "string" /\ value.value = <<>>
    \/ value.kind = "number" /\ value.value = 0

\* for (const k of keys) value = value?.[k]
RECURSIVE Walk(_, _)
Walk(value, keys) ==
    IF keys = <<>> THEN value ELSE Walk(Member(value, Head(keys)), Tail(keys))

AboutBioKey == <<"a", "b", "o", "u", "t", ".", "b", "i", "o">>

Langs == {"en", "fr", "de"}

\* translations[lang] and bio[lang]
OfLang(doc, lang) == IF lang \in DOMAIN doc THEN doc[lang] ELSE JsUndefined

BioOfLang(doc, lang) == IF lang \in DOMAIN doc THEN Str(doc[lang]) ELSE JsUndefined

\* A helper that reads a member of undefined: without ?. it throws.
RECURSIVE WalkThrowing(_, _)
WalkThrowing(value, keys) ==
    IF keys = <<>> THEN value
    ELSE IF value.kind \in {"undefined", "null", "thrown"} THEN [kind |-> "thrown"]
    ELSE WalkThrowing(Member(value, Head(keys)), Tail(keys))

TThrowing(key, lang) ==
    LET value == WalkThrowing(OfLang(translations, lang), Split(key, "."))
    IN  IF value.kind = "thrown" THEN value
        ELSE IF key = AboutBioKey /\ ~Falsy(BioOfLang(bio, lang)) THEN BioOfLang(bio, lang)
        ELSE IF ~Falsy(value) THEN value
        ELSE Str(key)

\* The body of app.locals.t, on given values of translations and bio.
TOf(trans, bioDoc, key, lang) ==
    LET value == Walk(OfLang(trans, lang), Split(key, "."))
    IN  IF key = AboutBioKey /\ ~Falsy(BioOfLang(bioDoc, lang)) THEN BioOfLang(bioDoc, lang)
        ELSE IF ~Falsy(value) THEN value
        ELSE Str(key)

\* app.locals.t(key, lang), on the translations and bio of the server.
T(key, lang) == TOf(translations, bio, key, lang)

SegAbout == <<"a", "b", "o", "u", "t">>

SegBio == <<"b", "i", "o">>

SegTitle == <<"t", "i", "t", "l", "e">>

SegNav == <<"n", "a", "v">>

SegLength == <<"l", "e", "n", "g", "t", "h">>

Dotted(a, b) == a \o <<".">> \o b

\* The keys the templates ask for.
Keys ==
    {AboutBioKey, Dotted(SegAbout, SegTitle), SegAbout, SegTitle, SegNav,
     Dotted(SegNav, SegTitle), Dotted(Dotted(SegNav, SegTitle), SegBio),
     Dotted(SegTitle, SegLength), Dotted(SegTitle, SegBio), <<>>}

\* Locale documents: a tree with about.bio, an empty about.title and a
\* title; one whose about is a text; an empty object; null.
LocaleDocs ==
    {Obj((SegAbout :> Obj((SegBio :> Str(<<"H", "i">>)) @@ (SegTitle :> Str(<<>>))))
         @@ (SegTitle :> Str(<<"T">>))),
     Obj((SegAbout :> Str(<<"x">>)) @@ (SegNav :> Obj((SegTitle :> Str(<<"N">>))))),
     Obj(NoFields),
     JsNull}

BioDocs == {[en |-> <<>>, fr |-> <<>>], [en |-> <<"B">>, fr |-> <<>>]}

InitT ==
    /\ env = [ADMIN_USER |-> Undefined, ADMIN_PASS |-> Some(Pw)]
    /\ hits = [c \in Clients |-> 0]
    /\ contactHits = [c \in Clients |-> 0]
    /\ pending = NoPending
    /\ bioFile \in {Some(b) : b \in BioDocs}
    /\ localeFiles \in [en : LocaleDocs, fr : {Obj(NoFields)}]
    /\ tracksFile = Undefined
    /\ workDir = {}
    /\ imagesDir = Some("hellajay-pp")
    /\ tracksData = LoadTracks(tracksFile)
    /\ translations = LoadTranslations(localeFiles)
    /\ bio = LoadBio(bioFile)
    /\ last \in {[NoRequest EXCEPT !.body = [key |-> k, lang |-> l]] : k \in Keys, l \in Langs}
    /\ prev = NoRequest

\* A template calls t(key, lang).
TCall ==
    /\ last.route = "none"
    /\ last' = [last EXCEPT !.route = "t",
                    !.res = [Send(0, "") EXCEPT !.locals = T(last.body.key, last.body.lang)]]
    /\ UNCHANGED <<env, hits, contactHits, pending, bioFile, localeFiles, tracksFile, workDir,
                   imagesDir, tracksData, translations, bio, prev>>

NextT == TCall

SpecT == InitT /\ [][NextT]_vars

(***************************************************************************)
(* Properties of t (SpecT)                                                 *)
(***************************************************************************)
\* The segments of a key, cut at each '.'.
RECURSIVE Segments(_)
Segments(key) ==
    IF \E i \in 1..Len(key) : key[i] = "."
    THEN LET i == CHOOSE i \in 1..Len(key) : key[i] = "." /\ \A j \in 1..(i - 1) : key[j] # "."
         IN  <<SubSeq(key, 1, i - 1)>> \o Segments(SubSeq(key, i + 1, Len(key)))
    ELSE <<key>>

\* The path is present in a document: every segment is a key of the object
\* the segments before it lead to.
RECURSIVE Present(_, _)
Present(doc, segs) ==
    \/ segs = <<>>
    \/ /\ doc.kind = "object"
       /\ Head(segs) \in DOMAIN doc.fields
       /\ Present(doc.fields[Head(segs)], Tail(segs))

\* The value stored at a present path.
RECURSIVE Stored(_, _)
Stored(doc, segs) ==
    IF segs = <<>> THEN doc ELSE Stored(doc.fields[Head(segs)], Tail(segs))

TCalled == last.route = "t"

LangDoc == IF last.body.lang \in {"en", "fr"} THEN localeFiles[last.body.lang] ELSE JsUndefined

Empty(value) == value.kind = "null" \/ (value.kind = "string" /\ value.value = <<>>)

BuiltIn(segs) == \E i \in 1..Len(segs) : segs[i] = <<"l", "e", "n", "g", "t", "h">>

SiteBioTexts == {Undefined, Some(<<"B">>), Some(<<" ">>)}

SiteLocaleTexts ==
    {[given |-> TRUE, valid |-> TRUE, doc |-> d] : d \in LocaleDocs}
    \cup {[given |-> TRUE, valid |-> FALSE, doc |-> JsNull]}

SitePaths == {<<"/">>, <<"/", "e", "n">>, <<"/", "f", "r">>}

SiteAcceptHeaders == {Undefined, Some(<<[full |-> "fr", prefix |-> "fr", q |-> 10]>>)}

\* The keys the landing page is taken to show.
PageKeys == {AboutBioKey, Dotted(SegAbout, SegTitle), SegTitle}

InitSite ==
    /\ env \in ServerEnvs
    /\ hits = [c \in Clients |-> 0]
    /\ contactHits = [c \in Clients |-> 0]
    /\ pending = NoPending
    /\ bioFile \in {Undefined, Some([en |-> <<>>, fr |-> <<>>])}
    /\ localeFiles = [en |-> Obj((SegTitle :> Str(<<"T">>))), fr |-> Obj(NoFields)]
    /\ tracksFile = Undefined
    /\ workDir = {}
    /\ imagesDir = Some("hellajay-pp")
    /\ tracksData = LoadTracks(tracksFile)
    /\ translations = LoadTranslations(localeFiles)
    /\ bio = LoadBio(bioFile)
    /\ last = NoRequest
    /\ prev = NoRequest

SaveBio ==
    \E c \in Clients, h \in Headers :
        Admin("POST /about/bio", c, h, [bioEn : SiteBioTexts, bioFr : SiteBioTexts])

SaveTranslations ==
    \E c \in Clients, h \in Headers :
        Admin("POST /translations", c, h,
              [en : SiteLocaleTexts,
               fr : {[given |-> TRUE, valid |-> TRUE, doc |-> Obj(NoFields)]}])

\* GET /, /en or /fr: the reload middleware, the language middleware, then
\* the page rendered with t on the translations and bio just read.
GetPage ==
    \E path \in SitePaths, header \in SiteAcceptHeaders :
        /\ Reload
        /\ \E lang \in {Lang(path, header)} :
            last' = [NoRequest EXCEPT
                        !.route = "GET page",
                        !.body = [path |-> path, acceptLanguage |-> header],
                        !.res = [Send(200, "index") EXCEPT
                                    !.locals = [lang |-> lang,
                                                audioFiles |-> GetAudioFiles(tracksData),
                                                texts |-> [k \in PageKeys |->
                                                    TOf(translations', bio', k, lang)]]],
                        !.trace = <<"reload", "lang", "route">>]
        /\ UNCHANGED <<env, hits, contactHits, pending, bioFile, localeFiles, tracksFile, workDir,
                       imagesDir, tracksData, prev>>

NextSite ==
    \/ WindowReset
    \/ GetPage
    \/ Burst /\ SaveBio
    \/ Burst /\ SaveTranslations

SpecSite == InitSite /\ [][NextSite]_vars

(***************************************************************************)
(* Properties of the reload middleware (SpecSite)                          *)
(***************************************************************************)
\* A step in which the server received a request.
RequestStep == AdminStep \/ (last' # last /\ last'.route = "GET page")

\* What t returns for a key from the documents on disk: the bio text for
\* 'about.bio' when it is not empty, else the stored value when the path is
\* present and not empty, else the key.
OnDisk(key, lang) ==
    LET doc == localeFiles[lang]
        segs == Segments(key)
        bioText == IF bioFile = Undefined THEN <<>> ELSE Val(bioFile)[lang]
    IN  IF key = <<"a", "b", "o", "u", "t", ".", "b", "i", "o">> /\ bioText # <<>>
        THEN Str(bioText)
        ELSE IF Present(doc, segs) /\ ~Empty(Stored(doc, segs)) THEN Stored(doc, segs)
        ELSE Str(key)

\* C16: every request makes the server read the locale documents and the bio
\* from disk before anything else, and a page is rendered from what is on
\* disk at that time; a successful save of the bio or of the translations
\* puts the saved content on disk, so every later page shows it.
C16_ReloadedEveryRequest ==
    [][/\ RequestStep =>
            /\ translations' = [en |-> localeFiles.en, fr |-> localeFiles.fr]
            /\ bio' = (IF bioFile = Undefined THEN [en |-> <<>>, fr |-> <<>>] ELSE Val(bioFile))
       /\ (last' # last /\ last'.route = "GET page") =>
            /\ UNCHANGED <<bioFile, localeFiles>>
            /\ \A k \in DOMAIN last'.res.locals.texts :
                last'.res.locals.texts[k] = OnDisk(k, last'.res.locals.lang)
       /\ (Handled("POST /about/bio") /\ IsMessage(last'.res)) =>
            bioFile' = Some([en |-> Trim(OrEmpty(last'.body.bioEn)),
                             fr |-> Trim(OrEmpty(last'.body.bioFr))])
       /\ (Handled("POST /translations") /\ IsMessage(last'.res)) =>
            localeFiles' = [en |-> last'.body.en.doc, fr |-> last'.body.fr.doc]
      ]_vars

\* A page shows a saved bio and a saved translation, neither of which was
\* there at start.
C16_Witness ==
    /\ last.route = "GET page"
    /\ last.res.locals.lang = "en"
    /\ last.res.locals.texts[AboutBioKey] = Str(<<"B">>)
    /\ last.res.locals.texts[Dotted(SegAbout, SegTitle)] = Str(Dotted(SegAbout, SegTitle))
    /\ last.res.locals.texts[SegTitle] = Str(SegTitle)
    /\ localeFiles.en = Obj((SegAbout :> Str(<<"x">>)) @@ (SegNav :> Obj((SegTitle :> Str(<<"N">>)))))

(***************************************************************************)
(* Properties of the answers and of the registry (Spec)                    *)
(***************************************************************************)
MutatingRoutes ==
    {"POST /about/bio", "POST /work/upload", "POST /work/delete", "POST /work/update",
     "POST /work/reorder", "POST /translations"}

\* C17: whenever the handler of a mutating admin POST runs, the answer is a
\* redirect whose URL has a 'message' or an 'error' query parameter.
C17_RedirectCarriesNotice ==
    [][\A route \in MutatingRoutes :
        Handled(route) => (IsMessage(last'.res) \/ IsError(last'.res))
      ]_vars

\* C19: every filename of tracks.json is the name of a file of the work
\* directory.
C19_EveryRecordHasFile ==
    \A i \in 1..Len(LoadTracks(tracksFile)) :
        LoadTracks(tracksFile)[i].filename \in workDir

\* The records of `tracks` with `filename`, by index.
Matches(tracks, filename) == {i \in 1..Len(tracks) : tracks[i].filename = filename}

Least(S) == CHOOSE i \in S : \A j \in S : i <= j

\* C20: an accepted upload whose sanitized name is already in tracks.json
\* writes the file under that name (a file of that name is replaced, no other
\* file is added or removed) and appends a record with that filename, so two
\* records share it; a delete or update of
\* a filename that several records share removes, or retitles, the first of
\* them and leaves the others.
C20_DuplicateThenFirstMatch ==
    [][LET tracks == LoadTracks(tracksFile)
           after == LoadTracks(tracksFile')
       IN  /\ (/\ Handled("POST /work/upload")
               /\ IsMessage(last'.res)
               /\ \E i \in 1..Len(tracks) :
                    tracks[i].filename = after[Len(after)].filename)
                => (/\ Len(after) = Len(tracks) + 1
                    /\ SubSeq(after, 1, Len(tracks)) = tracks
                    /\ HasAny(last'.fs, {"write file"})
                    /\ workDir' = workDir \cup {after[Len(after)].filename}
                    /\ after[Len(after)].filename \in workDir => workDir' = workDir
                    /\ Cardinality(Matches(after, after[Len(after)].filename)) >= 2)
           /\ \A route \in {"POST /work/delete", "POST /work/update"} :
                (/\ Handled(route)
                 /\ IsMessage(last'.res)
                 /\ Cardinality(Matches(tracks, Val(last'.body.filename))) >= 2)
                    => LET first == Least(Matches(tracks, Val(last'.body.filename)))
                       IN  IF route = "POST /work/delete"
                           THEN after = [j \in 1..(Len(tracks) - 1) |->
                                            IF j < first THEN tracks[j] ELSE tracks[j + 1]]
                           ELSE /\ Len(after) = Len(tracks)
                                /\ \A j \in 1..Len(tracks) :
                                    /\ j # first => after[j] = tracks[j]
                                    /\ after[j].filename = tracks[j].filename
      ]_vars

\* Two records shared 'a.m', the first was retitled, and a delete of 'a.m'
\* removed it: the record with the title of the upload is left, without file.
C20_Witness ==
    /\ last.route = "POST /work/delete"
    /\ last.next
    /\ IsMessage(last.res)
    /\ last.body.filename = Some(NameA)
    /\ LoadTracks(tracksFile) = <<[filename |-> NameA, title |-> <<"a">>]>>
    /\ workDir = {}

(***************************************************************************)
(* Errors raised while a request is served                                 *)
(***************************************************************************)
\* The error handler at the end of the admin router.
AdminErrorHandler(err, referer) ==
    LET ref == OrEmpty(referer)
        isLocalAdmin == Includes(ref, <<"/", "a", "d", "m", "i", "n", "/">>)
        redirectBase == IF isLocalAdmin THEN Split(ref, "?")[1]
                        ELSE <<"/", "a", "d", "m", "i", "n">>
    IN  IF err.multer /\ err.code = "LIMIT_FILE_SIZE"
        THEN RedirectTo(redirectBase, "error", <<"F", "i", "l", "e", " ", "t", "o", "o", " ", "l", "a", "r", "g", "e">>)
        ELSE RedirectTo(redirectBase, "error", EncodeURIComponent(err.message))

\* The last middleware of server.js.
GlobalErrorHandler(err) ==
    Json(500, [success |-> FALSE, error |-> "An unexpected error occurred"])

\* An application that has the global handler only.
ErrorRouteGlobal(at, err, referer) == GlobalErrorHandler(err)

\* Where Express takes an error: one raised inside the admin router goes to
\* the router's own error handler, one raised by a middleware or a route of
\* the application goes to the global handler.
ErrorRoute(at, err, referer) ==
    IF at = "admin" THEN AdminErrorHandler(err, referer) ELSE GlobalErrorHandler(err)

FsError == [multer |-> FALSE, code |-> "", message |-> <<"E", "N", "O", "S", "P", "C">>]

FileTooLarge ==
    [multer |-> TRUE, code |-> "LIMIT_FILE_SIZE", message |-> <<"F", "i", "l", "e", " ", "t", "o", "o", " ", "l", "a", "r", "g", "e">>]

UnexpectedField ==
    [multer |-> TRUE, code |-> "LIMIT_UNEXPECTED_FILE", message |-> <<"U", "n", "e", "x", "p", "e", "c", "t", "e", "d", " ", "f", "i", "e", "l", "d">>]

ParseError == [multer |-> FALSE, code |-> "", message |-> <<"U", "n", "e", "x", "p", "e", "c", "t", "e", "d", " ", "t", "o", "k", "e", "n">>]

Referers ==
    {Undefined,
     Some(<<"/", "a", "d", "m", "i", "n", "/", "a", "b", "o", "u", "t", "?", "m", "=", "x">>),
     Some(<<"/", "a", "d", "m", "i", "n", "/", "w", "o", "r", "k">>),
     Some(<<"/", "a", "d", "m", "i", "n">>),
     Some(<<"/", "e", "n">>)}

\* The errors the admin routes raise without catching them: a write of
\* bio.json or tracks.json that fails, and multer refusing the upload.
AdminFaults ==
    {[route |-> "POST /about/bio", err |-> FsError],
     [route |-> "POST /work/upload", err |-> FsError],
     [route |-> "POST /work/upload", err |-> FileTooLarge],
     [route |-> "POST /work/upload", err |-> UnexpectedField],
     [route |-> "POST /about/photo", err |-> FileTooLarge]}

\* The errors of the application outside the admin router: res.render of a
\* page, and express.json() on the body of a contact request.
AppFaults ==
    {[route |-> "GET page", err |-> FsError],
     [route |-> "POST /api/contact", err |-> ParseError]}

AllRoutes ==
    {"GET page", "POST /api/contact", "GET /admin/work", "POST /about/bio", "POST /about/photo",
     "POST /work/upload", "POST /work/delete", "POST /work/update", "POST /work/reorder",
     "POST /translations"}

Faulted(route, at, err, referer, trace) ==
    [NoRequest EXCEPT !.route = route,
                      !.body = [at |-> at, err |-> err, referer |-> referer],
                      !.res = ErrorRoute(at, err, referer),
                      !.trace = trace]

\* loadTranslations throws in the reload middleware (a locale file cannot be
\* read or parsed): neither variable is assigned and no later middleware runs.
FailingReload ==
    \E route \in AllRoutes, referer \in Referers :
        /\ last' = Faulted(route, "reload", ParseError, referer,
                           <<"reload", "throw", "errorHandler">>)
        /\ UNCHANGED <<env, hits, contactHits, pending, bioFile, localeFiles, tracksFile, workDir,
                       imagesDir, tracksData, translations, bio, prev>>

\* A page route or the body parser of the application throws.
FailingApp ==
    \E f \in AppFaults, referer \in Referers :
        /\ Reload
        /\ last' = Faulted(f.route, "app", f.err, referer,
                           <<"reload", "lang", "route", "throw", "errorHandler">>)
        /\ UNCHANGED <<env, hits, contactHits, pending, bioFile, localeFiles, tracksFile, workDir,
                       imagesDir, tracksData, prev>>

\* An admin route throws, or multer passes an error, after the limiter and
\* basicAuth let the request through. multer has stored the audio file when
\* the write of tracks.json fails, and has removed it when it was too large.
FailingAdmin ==
    \E c \in Clients, h \in Headers, f \in AdminFaults, referer \in Referers :
        /\ Answers(c, h) = "route"
        /\ hits' = [hits EXCEPT ![c] = @ + 1]
        /\ Reload
        /\ last' = [Faulted(f.route, "admin", f.err, referer,
                            <<"reload", "adminLimiter", "basicAuth", "route", "throw",
                              "adminErrorHandler">>)
                        EXCEPT !.authHeader = h, !.next = TRUE]
        /\ workDir' = IF f.route # "POST /work/upload" \/ f.err = UnexpectedField THEN workDir
                      ELSE IF f.err = FileTooLarge THEN workDir \ {SafeName(NameA)}
                      ELSE workDir \cup {SafeName(NameA)}
        /\ UNCHANGED <<env, contactHits, pending, bioFile, localeFiles, tracksFile, imagesDir,
                       tracksData, prev>>

NextFault ==
    \/ WindowReset
    \/ GetPage
    \/ Burst /\ SaveBio
    \/ FailingReload
    \/ FailingApp
    \/ Burst /\ FailingAdmin

SpecFault == InitSite /\ [][NextFault]_vars

(***************************************************************************)
(* Properties of the error handlers (SpecFault)                            *)
(***************************************************************************)
\* A step in which a request raised an error that its handler did not catch.
RaisedStep == last' # last /\ HasAny(last'.trace, {"throw"})

GenericError == [success |-> FALSE, error |-> "An unexpected error occurred"]

\* C18 as stated: every request that raises an error its handler does not
\* catch is answered with status 500 and the generic JSON object.
C18_EveryErrorIs500Json ==
    [][RaisedStep =>
        /\ last'.res.status = 500
        /\ last'.res.body = "json"
        /\ last'.res.locals = GenericError
      ]_vars

\* The referer without its query when it contains '/admin/', else '/admin'.
Base(referer) ==
    IF referer # Undefined
       /\ \E i \in 1..(Len(Val(referer)) - 6) :
            SubSeq(Val(referer), i, i + 6) = <<"/", "a", "d", "m", "i", "n", "/">>
    THEN LET ref == Val(referer)
             q == {i \in 1..Len(ref) : ref[i] = "?"}
         IN  IF q = {} THEN ref ELSE SubSeq(ref, 1, Least(q) - 1)
    ELSE <<"/", "a", "d", "m", "i", "n">>

\* C18, amended: a request that raises an error its handler does not catch
\* always gets an answer. Raised inside the admin router, the answer is a
\* redirect to the admin page the request came from (or to /admin) with an
\* 'error' parameter; raised anywhere else, the answer is status 500 with the
\* generic JSON object. Either handler ends the request: the documents on
\* disk and the tracks cache are as before, and when the reload failed the
\* server keeps the translations and bio it had.
C18_ErrorsAnswered ==
    [][RaisedStep =>
        /\ IF last'.body.at = "admin"
           THEN /\ IsError(last'.res)
                /\ last'.res.location.path = Base(last'.body.referer)
                /\ last'.res.location.text # <<>>
           ELSE /\ last'.res.status = 500
                /\ last'.res.body = "json"
                /\ last'.res.locals = GenericError
        /\ last'.body.at = "reload" => UNCHANGED <<translations, bio>>
        /\ UNCHANGED <<bioFile, localeFiles, tracksFile, tracksData>>
      ]_vars

\* A failed write of bio.json was answered with a redirect to the page the
\* form was on.
C18_Witness ==
    /\ last.route = "POST /about/bio"
    /\ HasAny(last.trace, {"throw"})
    /\ last.body.err = FsError
    /\ last.res.status = 302
    /\ last.res.location.path = <<"/", "a", "d", "m", "i", "n", "/", "a", "b", "o", "u", "t">>
    /\ last.res.location.text = <<"E", "N", "O", "S", "P", "C">>

(***************************************************************************)
(* Two admin connections with track requests in flight at the same time    *)
(***************************************************************************)
TrackRoutes == {"POST /work/upload", "POST /work/delete", "POST /work/update", "POST /work/reorder"}

RaceFiles ==
    {Some([originalname |-> NameA, audio |-> TRUE, tooLarge |-> FALSE]),
     Some([originalname |-> NameB, audio |-> TRUE, tooLarge |-> FALSE])}

RaceBodies(route) ==
    CASE route = "POST /work/upload" -> [file : RaceFiles]
      [] route = "POST /work/delete" -> [filename : {Some(NameA)}]
      [] route = "POST /work/update" -> [filename : {Some(NameA)}, title : {Some(<<"T">>)}]
      [] route = "POST /work/reorder" -> [filename : {Some(NameA)}, direction : {Some("down")}]

InFlight == {s \in Sessions : pending[s].phase \in {"parsing", "read"}}

InitRace ==
    /\ env = [ADMIN_USER |-> Undefined, ADMIN_PASS |-> Some(Pw)]
    /\ hits = [c \in Clients |-> 0]
    /\ contactHits = [c \in Clients |-> 0]
    /\ pending = NoPending
    /\ bioFile = Some([en |-> <<>>, fr |-> <<>>])
    /\ localeFiles = [en |-> "en0", fr |-> "fr0"]
    /\ tracksFile = Undefined
    /\ workDir = {}
    /\ imagesDir = Some("hellajay-pp")
    /\ tracksData = LoadTracks(tracksFile)
    /\ translations = LoadTranslations(localeFiles)
    /\ bio = LoadBio(bioFile)
    /\ last = NoRequest
    /\ prev = NoRequest

\* A track request arrives on connection s and passes the reload middleware,
\* the limiter and basicAuth; express.urlencoded or multer then reads its
\* body, which takes any number of turns of the event loop.
Arrive(s) ==
    \E c \in Clients, route \in TrackRoutes :
        /\ pending[s].phase = "idle"
        /\ Answers(c, GoodHeader) = "route"
        /\ route = "POST /work/upload" =>
                Len(LoadTracks(tracksFile))
                + Cardinality({o \in InFlight : pending[o].route = route}) < MaxTracks
        /\ hits' = [hits EXCEPT ![c] = @ + 1]
        /\ Reload
        /\ \E body \in RaceBodies(route) :
            pending' = [pending EXCEPT ![s] =
                            [phase |-> "parsing", route |-> route, body |-> body,
                             out |-> <<>>, stale |-> FALSE, during |-> InFlight]]
        /\ UNCHANGED <<env, contactHits, bioFile, localeFiles, tracksFile, workDir, imagesDir,
                       tracksData, last, prev>>

\* A handler that gives the event loop back between its read and its write.
TurnAny(s) == TRUE

\* The handlers call readFileSync and writeFileSync and never await: once a
\* handler has started, no other callback runs before it returns.
Turn(s) == \A o \in Sessions \ {s} : pending[o].phase # "read"

\* The handler of the request on connection s starts: it reads tracks.json
\* (loadTracksJson) and computes what it will write and answer.
HandlerReads(s) ==
    /\ pending[s].phase = "parsing"
    /\ Turn(s)
    /\ pending' = [pending EXCEPT ![s].phase = "read",
                                  ![s].out = Handle(pending[s].route, pending[s].body)]
    /\ UNCHANGED <<env, hits, contactHits, bioFile, localeFiles, tracksFile, workDir,
                   imagesDir, tracksData, translations, bio, last, prev>>

\* The handler writes tracks.json (saveTracksJson), reloads the cache and
\* answers. The document another handler has read is out of date from then on.
HandlerWrites(s) ==
    /\ pending[s].phase = "read"
    /\ \E out \in {pending[s].out} :
        /\ last' = [route |-> pending[s].route, authHeader |-> GoodHeader,
                    body |-> pending[s].body, res |-> out.res, next |-> TRUE,
                    trace |-> <<"adminLimiter", "basicAuth", "route">>,
                    steps |-> NoSteps, fs |-> out.fs]
        /\ tracksFile' = out.tracksFile
        /\ workDir' = out.workDir
        /\ tracksData' = out.tracksData
        /\ pending' = [o \in Sessions |->
                        IF o = s THEN [pending[s] EXCEPT !.phase = "done"]
                        ELSE IF pending[o].phase = "read" /\ out.tracksFile # tracksFile
                             THEN [pending[o] EXCEPT !.stale = TRUE]
                        ELSE pending[o]]
    /\ UNCHANGED <<env, hits, contactHits, bioFile, localeFiles, imagesDir, translations, bio,
                   prev>>

\* Both answers have been received.
Close ==
    /\ \A s \in Sessions : pending[s].phase = "done"
    /\ pending' = NoPending
    /\ UNCHANGED <<env, hits, contactHits, bioFile, localeFiles, tracksFile, workDir,
                   imagesDir, tracksData, translations, bio, last, prev>>

NextRace ==
    \/ WindowReset
    \/ \E s \in Sessions : Burst /\ Arrive(s)
    \/ \E s \in Sessions : HandlerReads(s)
    \/ \E s \in Sessions : HandlerWrites(s)
    \/ Close

SpecRace == InitRace /\ [][NextRace]_vars

(***************************************************************************)
(* Properties of concurrent track requests (SpecRace)                      *)
(***************************************************************************)
Wrote(s) == HasAny(pending[s].out.fs, {"write tracks.json"})

\* A handler wrote tracks.json from a document that another request had
\* replaced in the meantime: the mutation of that other request is gone.
Lost == \E s \in Sessions : pending[s].phase = "done" /\ pending[s].stale /\ Wrote(s)

\* Both requests were in flight at the same time, and both have been answered
\* with success after writing tracks.json.
BothMutated ==
    /\ \A s \in Sessions :
        pending[s].phase = "done" /\ IsMessage(pending[s].out.res) /\ Wrote(s)
    /\ \E s \in Sessions : pending[s].during # {}

C22_CacheEqualsDocument ==
    [][/\ (AdminStep /\ last'.route \in TrackRoutes)
            => tracksData' = (IF tracksFile' = Undefined THEN <<>> ELSE Val(tracksFile'))
       /\ (last' # last /\ last'.route = "GET /")
            => LET doc == IF tracksFile = Undefined THEN <<>> ELSE Val(tracksFile)
               IN  /\ Len(last'.res.locals) = Len(doc)
                   /\ \A i \in 1..Len(doc) :
                        /\ last'.res.locals[i].url = WorkUrl(doc[i].filename)
                        /\ last'.res.locals[i].title = doc[i].title
      ]_vars

\* After a reorder that exchanged two tracks, GET / lists 'b_c.m' before
\* 'a.m', as tracks.json has them.
C22_Witness ==
    /\ last.route = "GET /"
    /\ Len(last.res.locals) = 2
    /\ last.res.locals[1].title = <<"b", "_", "c">>
    /\ last.res.locals[2].title = <<"T">>
    /\ LoadTracks(tracksFile)[1].filename = <<"b", "_", "c", ".", "m">>
    /\ LoadTracks(tracksFile)[2].filename = NameA

(***************************************************************************)
(* Properties of the translations save (SpecGate)                          *)
(***************************************************************************)
\* C23: a translations save answered with the error redirect leaves en.json
\* and fr.json as they were, and no translations save writes one of the two
\* files without the other.
C23_BothOrNeither ==
    [][Handled("POST /translations") =>
        /\ IsError(last'.res) => UNCHANGED localeFiles
        /\ HasAny(last'.fs, {"write en.json"}) = HasAny(last'.fs, {"write fr.json"})
      ]_vars

(***************************************************************************)
(* Properties of the stored filename and the later requests (SpecName)     *)
(***************************************************************************)
\* C24: the filename that audioStorage.filename gives an upload whose
\* original name is not empty is accepted by the filename validation of delete, update and reorder: none of the
\* three answers 'Invalid filename' or 'Invalid path' for it.
C24_StoredNameAccepted ==
    (last.route = "audioStorage.filename" /\ last.body.originalname # <<>>) =>
        \A out \in {WorkDelete(Some(last.body.filename)),
                    WorkUpdate(Some(last.body.filename), Some(<<"T">>)),
                    WorkReorder(Some(last.body.filename), Some("up"))} :
            out.res.location.text \notin {"Invalid filename", "Invalid path"}

====
